---- MODULE Spec2Model ----
(***************************************************************************)
(* State-machine model of the market-stress simulators of jinn-core:       *)
(* CryptoPanicModel (src/src/models/crypto_panic.py) and BankPanicModel    *)
(* (src/src/models/bank_panic.py).                                         *)
(*                                                                         *)
(* Dimensionless quantities (intensities, rates, reserves, returns) are    *)
(* fixed-point integers with SCALE units per 1.0.  Prices and volumes are  *)
(* decimal floating-point numbers [m, e] = m * 10^e with a four-digit      *)
(* mantissa, so that a price keeps its relative precision over any number  *)
(* of floor hits, as a binary double does.  The process-wide generator     *)
(* np.random is a full-period congruential generator over RngMod states.   *)
(***************************************************************************)
EXTENDS Integers, Sequences, FiniteSets, TLC

VARIABLES
    rng,              \* state of the process-wide generator np.random
    parameters,       \* self.parameters of the model instance
    pc,               \* position of the driver inside simulate
    t,                \* loop variable of simulate
    panic,            \* the shock descriptor of the current / last call
    panic_intensity,  \* local of the loop body
    results,          \* the results dictionary (time series)
    agent_states,     \* retail, whale and exchange state
    outcome,          \* how the last call ended: none, running, returned, raised
    summary,          \* results['summary']
    statusWrites,     \* per exchange: assignments made by the last freeze check
    pre,              \* exchange state when the last exchange update began
    readSlots,        \* series slots read by the phase just executed
    reference,        \* series returned by the previous identical call, if any
    runs,             \* number of simulate calls made
    model,            \* class of the model instance: none, crypto, bank
    heap,             \* the dict objects of the caller, by identity
    instances,        \* model instances built from a dict of the heap
    engine,           \* SimulationEngine: registry and the call in progress
    args,             \* arguments of the module-level function being called
    ret,              \* what the last engine or function call gave back
    threads           \* the running thread and the locals of the other one

hvars == <<heap, instances, engine, args, ret, threads>>

vars == <<rng, parameters, pc, t, panic, panic_intensity, results,
          agent_states, outcome, summary, statusWrites, pre, readSlots,
          reference, runs, model, heap, instances, engine, args, ret,
          threads>>

(***************************************************************************)
(* Bounds of the model.                                                    *)
(***************************************************************************)
MaxPeriods == 4
MaxRuns == 2
MaxDuration == 3
MaxStart == 1

(***************************************************************************)
(* Fixed-point arithmetic.                                                 *)
(***************************************************************************)
SCALE == 10000

Abs(x) == IF x < 0 THEN -x ELSE x
Sgn(x) == IF x < 0 THEN -1 ELSE 1
Min(a, b) == IF a < b THEN a ELSE b
Max(a, b) == IF a > b THEN a ELSE b

\* a * b for fixed-point a, b (rounded toward zero)
FxMul(a, b) == Sgn(a) * Sgn(b) * ((Abs(a) * Abs(b)) \div SCALE)

RECURSIVE Pow10(_)
Pow10(n) == IF n <= 0 THEN 1 ELSE 10 * Pow10(n - 1)

(***************************************************************************)
(* Decimal floating point with a four-digit mantissa.                      *)
(***************************************************************************)
RECURSIVE FNorm(_, _)
FNorm(m, e) ==
    IF m = 0 THEN [m |-> 0, e |-> 0]
    ELSE IF Abs(m) > 9999 THEN FNorm(Sgn(m) * (Abs(m) \div 10), e + 1)
    ELSE IF Abs(m) < 1000 THEN FNorm(m * 10, e - 1)
    ELSE [m |-> m, e |-> e]

FZero == [m |-> 0, e |-> 0]
FromFx(x) == FNorm(x, -4)
FromInt(n) == FNorm(n, 0)
FMul(a, b) == FNorm(a.m * b.m, a.e + b.e)
FNeg(a) == [m |-> -a.m, e |-> a.e]

FLessPos(a, b) == a.e < b.e \/ (a.e = b.e /\ a.m < b.m)
FLess(a, b) ==
    IF a.m = 0 THEN b.m > 0
    ELSE IF b.m = 0 THEN a.m < 0
    ELSE IF a.m < 0 /\ b.m > 0 THEN TRUE
    ELSE IF a.m > 0 /\ b.m < 0 THEN FALSE
    ELSE IF a.m > 0 THEN FLessPos(a, b)
    ELSE FLessPos(FNeg(b), FNeg(a))
FLeq(a, b) == ~FLess(b, a)
FMax(a, b) == IF FLess(a, b) THEN b ELSE a
FMin(a, b) == IF FLess(b, a) THEN b ELSE a

\* a + b; an addend more than five decades below the other is absorbed
FAdd(a, b) ==
    IF a.m = 0 THEN b
    ELSE IF b.m = 0 THEN a
    ELSE IF a.e >= b.e
         THEN IF a.e - b.e > 5 THEN a
              ELSE FNorm(a.m * Pow10(a.e - b.e) + b.m, b.e)
         ELSE IF b.e - a.e > 5 THEN b
              ELSE FNorm(b.m * Pow10(b.e - a.e) + a.m, a.e)
FSub(a, b) == FAdd(a, FNeg(b))

\* a / b as a fixed-point number (b # 0)
FDivFx(a, b) ==
    LET q == Sgn(a.m) * Sgn(b.m) * ((Abs(a.m) * SCALE) \div Abs(b.m))
        d == a.e - b.e
    IN  IF d >= 0 THEN q * Pow10(d)
        ELSE Sgn(q) * (Abs(q) \div Pow10(-d))

(***************************************************************************)
(* The process-wide random generator (np.random).                          *)
(***************************************************************************)
RngMod == 16
RngStates == 0 .. (RngMod - 1)
RngNext(r) == (5 * r + 3) % RngMod

\* standard normal quantiles at (k + 1/2) / RngMod, fixed-point
ZTable == << -18600, -13180, -10100, -7760, -5790, -4020, -2370, -780,
             780, 2370, 4020, 5790, 7760, 10100, 13180, 18600 >>

\* value of np.random.random() drawn in generator state r
Random01(r) == (r * SCALE) \div RngMod
\* value of np.random.uniform(lo, hi) drawn in generator state r
Uniform(r, lo, hi) == lo + FxMul(hi - lo, Random01(r))
\* value of np.random.normal(0, sigma) drawn in generator state r
Normal(r, sigma) == FxMul(ZTable[r + 1], sigma)

(***************************************************************************)
(* CryptoPanicModel: parameters and shock descriptor.                      *)
(***************************************************************************)
NumExchanges == 2

\* the defaults of _validate_parameters (num_exchanges at the model's bound)
Defaults ==
    [ btc_initial_price |-> FromInt(45000),
      eth_initial_price |-> FromInt(3000),
      doge_initial_price |-> FNorm(15, -2),
      btc_supply |-> FromInt(19500000),
      eth_supply |-> FromInt(120000000),
      doge_supply |-> FNorm(14, 10),
      num_exchanges |-> NumExchanges,
      retail_panic_threshold |-> 500,
      retail_sell_probability |-> 3000,
      retail_herd_multiplier |-> 20000,
      retail_doge_fomo |-> 8000,
      whale_coordination_prob |-> 2000,
      whale_doge_pump_power |-> 20000,
      exchange_freeze_threshold |-> 4000,
      exchange_recovery_rate |-> 1000,
      price_volatility_base |-> 200,
      doge_celebrity_effect |-> 3000,
      doge_volatility_multiplier |-> 30000,
      doge_pump_probability |-> 1000,
      btc_to_eth_correlation |-> 7000,
      btc_to_doge_correlation |-> 4000,
      eth_to_doge_correlation |-> 3000,
      num_retail_investors |-> 1000000,
      num_whales |-> 100,
      num_influencers |-> 50,
      whale_manipulation_factor |-> 8000,
      whale_average_holding |-> FromInt(1000),
      exchange_liquidity_ratio |-> 1500,
      doge_social_media_factor |-> 15000,
      liquidity_impact_factor |-> 5000,
      recovery_half_life |-> 7,
      crypto_to_traditional_spillover |-> 1000,
      periods |-> 30,
      random_seed |-> 42 ]

Seeds == {42, 7}
FreezeThresholds == {4000, 9000}
VolatilityBases == {200, 5000}

\* the caller-supplied overrides the model varies
Overrides ==
    [ periods : 1 .. MaxPeriods,
      random_seed : Seeds,
      exchange_freeze_threshold : FreezeThresholds,
      price_volatility_base : VolatilityBases ]

\* a merge in which the defaults win over the caller's values
ValidateParametersDefaultsWin(params) ==
    [ k \in (DOMAIN Defaults) \cup (DOMAIN params) |->
        IF k \in DOMAIN Defaults THEN Defaults[k] ELSE params[k] ]

\* _validate_parameters: the overrides, completed with the defaults
ValidateParameters(params) ==
    [ k \in (DOMAIN Defaults) \cup (DOMAIN params) |->
        IF k \in DOMAIN params THEN params[k] ELSE Defaults[k] ]

NoInstance == [ periods |-> 0 ]

TriggerIntensities == {-5000, 0, 6000, 10000, 20000}

\* CryptoPanicShock as parsed from simulation_config['panic']
PanicConfigs ==
    [ trigger_intensity : TriggerIntensities,
      panic_duration : 0 .. MaxDuration,
      start_period : 0 .. MaxStart ]

NoPanic ==
    [ trigger_type |-> "whale_dump", trigger_intensity |-> 0,
      panic_duration |-> 0, start_period |-> 0, contagion_factor |-> 1500 ]

\* CryptoPanicShock(...panic_config.get(key, default)...): the keys the
\* configurations of this module may leave out take their defaults
ParsePanic(cfg) ==
    [ trigger_type |-> IF "trigger_type" \in DOMAIN cfg
                       THEN cfg.trigger_type ELSE "whale_dump",
      trigger_intensity |-> cfg.trigger_intensity,
      panic_duration |-> cfg.panic_duration,
      start_period |-> cfg.start_period,
      contagion_factor |-> IF "contagion_factor" \in DOMAIN cfg
                           THEN cfg.contagion_factor ELSE 1500 ]

\* np.random.seed(s): the generator state a seed selects
SeedState(s) == s % RngMod

\* simulate without the reseed: the generator is left where it stands
SeedOnSimulateKeep(r, seed) == r

\* the generator state simulate starts from
SeedOnSimulate(r, seed) == SeedState(seed)

(***************************************************************************)
(* Time series: slot t of a series lives at index t + 1.                   *)
(***************************************************************************)
Full(n, v) == [ i \in 1 .. n |-> v ]
Slot(s, k) == s[k + 1]
SetSlot(s, k, v) == [ s EXCEPT ![k + 1] = v ]

RECURSIVE SumSeq(_)
SumSeq(s) == IF s = << >> THEN 0 ELSE Head(s) + SumSeq(Tail(s))

\* np.mean of a non-empty array
Mean(s) == SumSeq(s) \div Len(s)
\* np.sum(array == v)
CountEq(s, v) == Cardinality({ i \in 1 .. Len(s) : s[i] = v })

\* the last value in place of the largest
SeqMaxLast(s) == s[Len(s)]

SeqMax(s) == CHOOSE x \in { s[i] : i \in 1 .. Len(s) } :
                 \A i \in 1 .. Len(s) : s[i] <= x
SeqMin(s) == CHOOSE x \in { s[i] : i \in 1 .. Len(s) } :
                 \A i \in 1 .. Len(s) : s[i] >= x

\* the results dictionary built at the start of simulate
InitResults(p) ==
    [ btc_price |-> Full(p.periods, p.btc_initial_price),
      eth_price |-> Full(p.periods, p.eth_initial_price),
      doge_price |-> Full(p.periods, p.doge_initial_price),
      btc_volume |-> Full(p.periods, FZero),
      eth_volume |-> Full(p.periods, FZero),
      doge_volume |-> Full(p.periods, FZero),
      panic_intensity |-> Full(p.periods, 0),
      retail_sell_rate |-> Full(p.periods, 0),
      whale_activity |-> Full(p.periods, 0),
      exchange_liquidity |-> Full(p.periods, SCALE),
      exchanges_frozen |-> Full(p.periods, 0),
      doge_social_media_index |-> Full(p.periods, 50 * SCALE),
      liquidation_volume |-> << >> ]

NoResults == InitResults(ValidateParameters(NoInstance))

\* exchanges that start from different reserves
InitializeAgentsUneven(p) ==
    [ panic_state |-> 0,
      coordination_level |-> 0,
      manipulation_intent |-> 0,
      liquidity_reserves |->
          [ i \in 1 .. p.num_exchanges |-> IF i = 1 THEN 5000 ELSE SCALE ],
      operational_status |-> Full(p.num_exchanges, 1),
      withdrawal_pressure |-> Full(p.num_exchanges, 0) ]

\* _initialize_agents
InitializeAgents(p) ==
    [ panic_state |-> 0,
      coordination_level |-> 0,
      manipulation_intent |-> 0,
      liquidity_reserves |-> Full(p.num_exchanges, SCALE),
      operational_status |-> Full(p.num_exchanges, 1),
      withdrawal_pressure |-> Full(p.num_exchanges, 0) ]

(***************************************************************************)
(* _calculate_panic_intensity (crypto variant: ramp, peak, decay, tail).   *)
(***************************************************************************)
\* np.exp(-0.2 * k)
\* the tail with the sign of the decay rate lost: np.exp(0.2 * k)
RECURSIVE ExpGrowth(_)
ExpGrowth(k) == IF k <= 0 THEN SCALE ELSE (ExpGrowth(k - 1) * 12214) \div SCALE

RECURSIVE ExpDecay(_)
ExpDecay(k) == IF k <= 0 THEN SCALE ELSE (ExpDecay(k - 1) * 8187) \div SCALE

\* result of a call: a value, or an exception raised
Value(v) == [ raised |-> FALSE, value |-> v ]
Raised == [ raised |-> TRUE, value |-> 0 ]

\* a tail whose residual is the contagion factor of the shock
CalculatePanicIntensityContagion(period, pk) ==
    IF period < pk.start_period THEN Value(0)
    ELSE IF period < pk.start_period + pk.panic_duration
    THEN LET relative_period == period - pk.start_period
             peak_period == pk.panic_duration \div 2
         IN  IF relative_period <= peak_period
             THEN IF peak_period = 0
                  THEN Raised
                  ELSE Value(Max(0, FxMul(pk.trigger_intensity,
                                 (relative_period * SCALE) \div peak_period)))
             ELSE Value(Max(0, FxMul(pk.trigger_intensity,
                      ((pk.panic_duration - relative_period) * SCALE)
                          \div (pk.panic_duration - peak_period))))
    ELSE LET recovery_period ==
                 period - pk.start_period - pk.panic_duration
         IN  Value(Max(0, FxMul(FxMul(pk.trigger_intensity,
                                      pk.contagion_factor),
                                ExpDecay(recovery_period))))

CalculatePanicIntensity(period, pk) ==
    IF period < pk.start_period THEN Value(0)
    ELSE IF period < pk.start_period + pk.panic_duration
    THEN LET relative_period == period - pk.start_period
             peak_period == pk.panic_duration \div 2
         IN  IF relative_period <= peak_period
             THEN IF peak_period = 0
                  THEN Raised   \* ZeroDivisionError
                  ELSE Value(Max(0, FxMul(pk.trigger_intensity,
                                 (relative_period * SCALE) \div peak_period)))
             ELSE Value(Max(0, FxMul(pk.trigger_intensity,
                      ((pk.panic_duration - relative_period) * SCALE)
                          \div (pk.panic_duration - peak_period))))
    ELSE LET recovery_period ==
                 period - pk.start_period - pk.panic_duration
         IN  Value(Max(0, FxMul(FxMul(pk.trigger_intensity, 1000),
                                ExpDecay(recovery_period))))

(***************************************************************************)
(* _update_agent_behaviors                                                 *)
(***************************************************************************)
\* the retail recovery without its clamp at 0
RetailPanicStateNoClamp(p, ps, intensity) ==
    IF intensity > p.retail_panic_threshold
    THEN Min(SCALE, ps + FxMul(intensity, 5000))
    ELSE ps - 1000

\* retail panic state after one period
RetailPanicState(p, ps, intensity) ==
    IF intensity > p.retail_panic_threshold
    THEN Min(SCALE, ps + FxMul(intensity, 5000))
    ELSE Max(0, ps - 1000)

\* retail sell rate from the panic state
RetailSellRate(p, ps) ==
    LET base_sell_rate == FxMul(ps, p.retail_sell_probability)
        herd_effect == FxMul(ps, p.retail_herd_multiplier)
    IN  Min(SCALE, FxMul(base_sell_rate, SCALE + herd_effect))

\* whale coordination level after one period
WhaleCoordination(p, cl, intensity) ==
    IF intensity > 3000
    THEN Min(SCALE, cl + FxMul(p.whale_coordination_prob, intensity))
    ELSE Max(0, cl - 2000)

\* the redraw without its scaling by the coordination level
WhaleIntentUnscaled(cl, mi, intensity, r) ==
    IF intensity > 3000
    THEN Uniform(r, -SCALE, SCALE)
    ELSE FxMul(mi, 8000)

\* whale manipulation intent after one period, drawn in generator state r
WhaleIntent(cl, mi, intensity, r) ==
    IF intensity > 3000
    THEN FxMul(Uniform(r, -SCALE, SCALE), cl)
    ELSE FxMul(mi, 8000)

\* withdrawal pressure put on every exchange
WithdrawalPressure(intensity, sell_rate) == FxMul(intensity, SCALE + sell_rate)

(***************************************************************************)
(* _update_asset_prices                                                    *)
(***************************************************************************)
\* slot of exchange_liquidity the price step reads
LiquiditySlot(period) == period - 1

\* the price step without its floor
FlooredPriceNoFloor(prev, change, floor) == FMul(prev, FromFx(SCALE + change))

\* a floor at zero in place of the fraction of the previous price
FlooredPriceAtZero(prev, change, floor) ==
    FMax(FMul(prev, FromFx(SCALE + change)), FZero)

\* max(prev * (1 + change), prev * floor)
FlooredPrice(prev, change, floor) ==
    FMax(FMul(prev, FromFx(SCALE + change)), FMul(prev, FromFx(floor)))

BtcFloor == 100
EthFloor == 100
DogeFloor == 10

\* the draws and the three returns of one price step, from generator state r0
PriceStep(p, res, ag, period, intensity, r0) ==
    LET btc_volatility == FxMul(p.price_volatility_base, SCALE + intensity * 2)
        eth_volatility ==
            FxMul(p.price_volatility_base, SCALE + (intensity * 5) \div 2)
        doge_volatility ==
            FxMul(FxMul(p.price_volatility_base, p.doge_volatility_multiplier),
                  SCALE + intensity * 3)
        retail_sell_pressure == FxMul(Slot(res.retail_sell_rate, period), 1000)
        whale_impact == FxMul(ag.manipulation_intent, 500)
        whale_doge_impact == FxMul(whale_impact, p.whale_doge_pump_power)
        liquidity_factor == Slot(res.exchange_liquidity, LiquiditySlot(period))
        liquidity_impact == FxMul(SCALE - liquidity_factor, 2000)
        celebrity == Random01(r0) < p.doge_celebrity_effect
        r1 == RngNext(r0)
        doge_social_media_effect ==
            IF celebrity THEN Uniform(r1, -1500, 3000) ELSE 0
        r2 == IF celebrity THEN RngNext(r1) ELSE r1
        pump == Random01(r2) < p.doge_pump_probability
        r3 == RngNext(r2)
        doge_random_pump == IF pump THEN Uniform(r3, 1000, 5000) ELSE 0
        r4 == IF pump THEN RngNext(r3) ELSE r3
        btc_change == Normal(r4, btc_volatility) - retail_sell_pressure
                          + whale_impact - liquidity_impact
        r5 == RngNext(r4)
        eth_correlation == p.btc_to_eth_correlation
        eth_independent ==
            FxMul(Normal(r5, eth_volatility), SCALE - eth_correlation)
        eth_correlated == FxMul(btc_change, eth_correlation)
        eth_change == eth_correlated + eth_independent
                          - FxMul(retail_sell_pressure, 12000)
                          + FxMul(whale_impact, 8000) - liquidity_impact
        r6 == RngNext(r5)
        doge_btc_correlation == p.btc_to_doge_correlation
        doge_eth_correlation == p.eth_to_doge_correlation
        doge_independent ==
            FxMul(Normal(r6, doge_volatility),
                  SCALE - doge_btc_correlation - doge_eth_correlation)
        doge_change == FxMul(btc_change, doge_btc_correlation)
                          + FxMul(eth_change, doge_eth_correlation)
                          + doge_independent
                          - FxMul(retail_sell_pressure, p.retail_doge_fomo)
                          + whale_doge_impact + doge_social_media_effect
                          + doge_random_pump - FxMul(liquidity_impact, 15000)
    IN  [ btc_change |-> btc_change, eth_change |-> eth_change,
          doge_change |-> doge_change, rng |-> RngNext(r6),
          retail_sell_pressure |-> retail_sell_pressure,
          whale_impact |-> whale_impact,
          liquidity_impact |-> liquidity_impact ]

(***************************************************************************)
(* _update_exchange_states                                                 *)
(***************************************************************************)
RecoveryThreshold == 8000

\* the liquidity update without the low-pressure recovery
UpdateLiquidityNoRecovery(p, reserve, status, pressure) ==
    IF status > 0
    THEN Max(0, reserve - FxMul(pressure, 1000))
    ELSE reserve

\* liquidity reserve of one exchange after depletion and recovery
UpdateLiquidity(p, reserve, status, pressure) ==
    IF status > 0
    THEN LET depleted == Max(0, reserve - FxMul(pressure, 1000))
         IN  IF pressure < 1000
             THEN Min(SCALE, depleted + p.exchange_recovery_rate)
             ELSE depleted
    ELSE reserve

\* the freeze check with two independent ifs instead of if / elif
StatusAssignmentsTwoIfs(p, reserve, status) ==
    LET first == IF reserve < p.exchange_freeze_threshold /\ status > 0
                 THEN << 0 >> ELSE << >>
        mid == IF first = << >> THEN status ELSE 0
    IN  IF reserve > RecoveryThreshold /\ mid = 0
        THEN first \o << 1 >> ELSE first

\* the values assigned to operational_status[i] by the freeze check, in order
StatusAssignments(p, reserve, status) ==
    IF reserve < p.exchange_freeze_threshold /\ status > 0 THEN << 0 >>
    ELSE IF reserve > RecoveryThreshold /\ status = 0 THEN << 1 >>
    ELSE << >>

LastOr(s, d) == IF s = << >> THEN d ELSE s[Len(s)]

(***************************************************************************)
(* _calculate_doge_social_media_index                                      *)
(***************************************************************************)
Clip(x, lo, hi) == Max(lo, Min(hi, x))

DogeSocialMediaIndex(res, period, intensity) ==
    IF period = 0 THEN 50 * SCALE
    ELSE LET doge_change ==
                 FDivFx(FSub(Slot(res.doge_price, period),
                             Slot(res.doge_price, period - 1)),
                        Slot(res.doge_price, period - 1))
             price_momentum_score == 50 * SCALE + doge_change * 1000
             panic_score == 50 * SCALE - intensity * 40
             exchange_health == Slot(res.exchange_liquidity, period) * 50
             social_media_influence ==
                 Slot(res.doge_social_media_index, period - 1)
                     + FxMul(intensity, 500)
             doge_social_media ==
                 (price_momentum_score * 4) \div 10 + (panic_score * 3) \div 10
                     + (exchange_health * 2) \div 10
                     + social_media_influence \div 10
         IN  Clip(doge_social_media, 0, 100 * SCALE)

(***************************************************************************)
(* _calculate_summary                                                      *)
(***************************************************************************)
FSeqMin(s) == CHOOSE x \in { s[i] : i \in 1 .. Len(s) } :
                  \A i \in 1 .. Len(s) : FLeq(x, s[i])
FSeqMax(s) == CHOOSE x \in { s[i] : i \in 1 .. Len(s) } :
                  \A i \in 1 .. Len(s) : FLeq(s[i], x)
CountIf(s, P(_)) == Cardinality({ i \in 1 .. Len(s) : P(s[i]) })

\* ((initial - lowest) / initial) * 100
DrawdownPct(series) ==
    FDivFx(FSub(series[1], FSeqMin(series)), series[1]) * 100

\* ((final - initial) / initial) * 100
TotalReturnPct(series) ==
    FDivFx(FSub(series[Len(series)], series[1]), series[1]) * 100

\* first period with btc_price >= 95% of the initial price (periods if none)
FirstRecovery(series) ==
    LET hits == { i \in 0 .. (Len(series) - 1) :
                    FLeq(FMul(series[1], FromFx(9500)), Slot(series, i)) }
    IN  IF hits = {} THEN Len(series)
        ELSE CHOOSE i \in hits : \A j \in hits : i <= j

\* 'recovery_period if recovery_period else periods'
RecoveryPeriod(series) ==
    IF FirstRecovery(series) = 0 THEN Len(series) ELSE FirstRecovery(series)

CalculateSummary(res, pk) ==
    [ trigger_type |-> pk.trigger_type,
      max_panic_intensity |-> SeqMax(res.panic_intensity),
      panic_periods |-> CountIf(res.panic_intensity, LAMBDA x : x > 1000),
      btc_total_return_pct |-> TotalReturnPct(res.btc_price),
      btc_max_drawdown_pct |-> DrawdownPct(res.btc_price),
      eth_total_return_pct |-> TotalReturnPct(res.eth_price),
      eth_max_drawdown_pct |-> DrawdownPct(res.eth_price),
      doge_total_return_pct |-> TotalReturnPct(res.doge_price),
      doge_max_drawdown_pct |-> DrawdownPct(res.doge_price),
      doge_max_pump_pct |->
          FDivFx(FSub(FSeqMax(res.doge_price), res.doge_price[1]),
                 res.doge_price[1]) * 100,
      doge_max_social_media_index |-> SeqMax(res.doge_social_media_index),
      doge_social_media_periods |->
          CountIf(res.doge_social_media_index, LAMBDA x : x > 50 * SCALE),
      min_doge_social_media_index |-> SeqMin(res.doge_social_media_index),
      max_frozen_exchanges |-> SeqMax(res.exchanges_frozen),
      min_exchange_liquidity |-> SeqMin(res.exchange_liquidity),
      exchange_stress_periods |->
          CountIf(res.exchange_liquidity, LAMBDA x : x < 5000),
      recovery_period |-> RecoveryPeriod(res.btc_price),
      market_survived |->
          FLess(FMul(res.btc_price[1], FromFx(5000)),
                res.btc_price[Len(res.btc_price)]),
      system_stability |->
          SeqMin(res.exchange_liquidity) > 2000
              /\ SeqMax(res.doge_social_media_index) < 90 * SCALE ]

NoSummary == [ max_panic_intensity |-> 0 ]
NoReference == NoResults

(***************************************************************************)
(* The time-stepped driver: CryptoPanicModel.simulate.                     *)
(***************************************************************************)
Phases == << "intensity", "agents", "prices", "exchanges", "record" >>

\* the loop body with the price step and the exchange update swapped
PhaseAfterSwapped(ph) ==
    CASE ph = "intensity" -> "agents"
      [] ph = "agents" -> "exchanges"
      [] ph = "exchanges" -> "prices"
      [] ph = "prices" -> "record"
      [] ph = "record" -> "next"

\* the phase the loop body runs after phase ph ("next": the next iteration)
PhaseAfter(ph) ==
    CASE ph = "intensity" -> "agents"
      [] ph = "agents" -> "prices"
      [] ph = "prices" -> "exchanges"
      [] ph = "exchanges" -> "record"
      [] ph = "record" -> "next"

NoAgents == InitializeAgents(ValidateParameters(NoInstance))

\* the locals of simulate die when the call returns or raises
DiscardLocals ==
    /\ t' = 0
    /\ panic_intensity' = 0
    /\ agent_states' = NoAgents
    /\ statusWrites' = << >>
    /\ pre' = NoAgents

\* CryptoPanicModel(parameters), when no call is in progress
Construct(o) ==
    /\ pc = "idle"
    /\ runs < MaxRuns
    /\ parameters' = ValidateParameters(o)
    /\ model' = "crypto"
    /\ parameters' # parameters
    /\ outcome' = "none"
    /\ results' = NoResults
    /\ summary' = NoSummary
    /\ panic' = NoPanic
    /\ readSlots' = {}
    /\ reference' = NoReference
    /\ UNCHANGED <<rng, pc, t, panic_intensity, agent_states,
                   statusWrites, pre, runs>>
    /\ UNCHANGED hvars

\* a draw taken from the process-wide generator by other code between calls
ExternalDraw ==
    /\ pc = "idle"
    /\ runs < MaxRuns
    /\ rng' = RngNext(rng)
    /\ UNCHANGED <<parameters, pc, t, panic, panic_intensity, results,
                   agent_states, outcome, summary, statusWrites, pre,
                   readSlots, reference, runs, model>>
    /\ UNCHANGED hvars

\* simulate(simulation_config), up to the start of the loop
Simulate(cfg) ==
    /\ pc = "idle"
    /\ model = "crypto"
    /\ parameters.periods >= 1
    /\ runs < MaxRuns
    /\ runs' = runs + 1
    /\ rng' = SeedOnSimulate(rng, parameters.random_seed)
    /\ reference' = IF outcome = "returned" /\ ParsePanic(cfg) = panic
                    THEN results ELSE NoReference
    /\ panic' = ParsePanic(cfg)
    /\ results' = InitResults(parameters)
    /\ agent_states' = InitializeAgents(parameters)
    /\ statusWrites' = Full(parameters.num_exchanges, << >>)
    /\ pre' = agent_states'
    /\ summary' = NoSummary
    /\ outcome' = "running"
    /\ t' = 0
    /\ panic_intensity' = 0
    /\ readSlots' = {}
    /\ pc' = "intensity"
    /\ UNCHANGED <<parameters, model>>
    /\ UNCHANGED hvars

\* panic_intensity = self._calculate_panic_intensity(t, panic)
CalcIntensity ==
    /\ pc = "intensity"
    /\ LET r == CalculatePanicIntensity(t, panic)
       IN  IF r.raised
           THEN /\ pc' = "idle"
                /\ outcome' = "raised"
                /\ results' = NoResults
                /\ DiscardLocals
           ELSE /\ pc' = PhaseAfter("intensity")
                /\ panic_intensity' = r.value
                /\ results' = [results EXCEPT
                       !.panic_intensity = SetSlot(@, t, r.value)]
                /\ UNCHANGED <<outcome, t, agent_states, statusWrites, pre>>
    /\ readSlots' = {}
    /\ UNCHANGED <<rng, parameters, panic, summary, reference, runs, model>>
    /\ UNCHANGED hvars

\* self._update_agent_behaviors(agent_states, t, panic_intensity, results)
UpdateAgentBehaviors ==
    /\ pc = "agents"
    /\ LET ps == RetailPanicState(parameters, agent_states.panic_state,
                                  panic_intensity)
           sell == RetailSellRate(parameters, ps)
           cl == WhaleCoordination(parameters,
                     agent_states.coordination_level, panic_intensity)
           mi == WhaleIntent(cl, agent_states.manipulation_intent,
                             panic_intensity, rng)
           wp == WithdrawalPressure(panic_intensity, sell)
       IN  /\ agent_states' = [agent_states EXCEPT
                  !.panic_state = ps,
                  !.coordination_level = cl,
                  !.manipulation_intent = mi,
                  !.withdrawal_pressure =
                      Full(Len(agent_states.withdrawal_pressure), wp)]
           /\ results' = [results EXCEPT
                  !.retail_sell_rate = SetSlot(@, t, sell),
                  !.whale_activity = SetSlot(@, t, Abs(mi))]
    /\ rng' = IF panic_intensity > 3000 THEN RngNext(rng) ELSE rng
    /\ readSlots' = {t}
    /\ pc' = PhaseAfter("agents")
    /\ UNCHANGED <<parameters, t, panic, panic_intensity, outcome, summary,
                   statusWrites, pre, reference, runs, model>>
    /\ UNCHANGED hvars

\* self._update_asset_prices(results, t, agent_states, panic_intensity)
UpdateAssetPrices ==
    /\ pc = "prices"
    /\ IF t = 0
       THEN /\ results' = [results EXCEPT
                   !.liquidation_volume = Full(Len(results.btc_price), FZero)]
            /\ readSlots' = {}
            /\ UNCHANGED rng
       ELSE LET st == PriceStep(parameters, results, agent_states, t,
                                panic_intensity, rng)
                btc == FlooredPrice(Slot(results.btc_price, t - 1),
                                    st.btc_change, BtcFloor)
                eth == FlooredPrice(Slot(results.eth_price, t - 1),
                                    st.eth_change, EthFloor)
                doge == FlooredPrice(Slot(results.doge_price, t - 1),
                                     st.doge_change, DogeFloor)
                volume_multiplier ==
                    FromFx(SCALE + panic_intensity * 3
                               + Abs(st.btc_change) * 10)
                btc_volume ==
                    FMul(FMul(FMul(btc, parameters.btc_supply), FromFx(200)),
                         volume_multiplier)
                eth_volume ==
                    FMul(FMul(FMul(eth, parameters.eth_supply), FromFx(300)),
                         volume_multiplier)
                doge_volume ==
                    FMul(FMul(FMul(doge, parameters.doge_supply), FromFx(500)),
                         volume_multiplier)
                total_volume == FAdd(FAdd(btc_volume, eth_volume), doge_volume)
                liquidation_rate == FxMul(panic_intensity, 1000)
            IN  /\ results' = [results EXCEPT
                       !.btc_price = SetSlot(@, t, btc),
                       !.eth_price = SetSlot(@, t, eth),
                       !.doge_price = SetSlot(@, t, doge),
                       !.btc_volume = SetSlot(@, t, btc_volume),
                       !.eth_volume = SetSlot(@, t, eth_volume),
                       !.doge_volume = SetSlot(@, t, doge_volume),
                       !.liquidation_volume =
                           SetSlot(@, t, FMul(total_volume,
                                              FromFx(liquidation_rate)))]
                /\ rng' = st.rng
                /\ readSlots' = {t - 1, t, LiquiditySlot(t)}
    /\ pc' = PhaseAfter("prices")
    /\ UNCHANGED <<parameters, t, panic, panic_intensity, agent_states,
                   outcome, summary, statusWrites, pre, reference, runs, model>>
    /\ UNCHANGED hvars

\* self._update_exchange_states(results, t, agent_states, panic_intensity)
UpdateExchangeStates ==
    /\ pc = "exchanges"
    /\ LET n == Len(agent_states.liquidity_reserves)
           reserves == [ i \in 1 .. n |->
               UpdateLiquidity(parameters, agent_states.liquidity_reserves[i],
                               agent_states.operational_status[i],
                               agent_states.withdrawal_pressure[i]) ]
           writes == [ i \in 1 .. n |->
               StatusAssignments(parameters, reserves[i],
                                 agent_states.operational_status[i]) ]
           status == [ i \in 1 .. n |->
               LastOr(writes[i], agent_states.operational_status[i]) ]
       IN  /\ agent_states' = [agent_states EXCEPT
                  !.liquidity_reserves = reserves,
                  !.operational_status = status]
           /\ statusWrites' = writes
           /\ results' = [results EXCEPT
                  !.exchange_liquidity = SetSlot(@, t, Mean(reserves)),
                  !.exchanges_frozen = SetSlot(@, t, CountEq(status, 0))]
    /\ pre' = agent_states
    /\ readSlots' = {}
    /\ pc' = PhaseAfter("exchanges")
    /\ UNCHANGED <<rng, parameters, t, panic, panic_intensity, outcome,
                   summary, reference, runs, model>>
    /\ UNCHANGED hvars

\* the social-media index, the progress line and the loop increment
RecordMetrics ==
    /\ pc = "record"
    /\ results' = [results EXCEPT
           !.doge_social_media_index =
               SetSlot(@, t, DogeSocialMediaIndex(results, t, panic_intensity))]
    /\ readSlots' = IF t = 0 THEN {t} ELSE {t - 1, t}
    /\ IF PhaseAfter("record") = "next"
       THEN IF t + 1 < parameters.periods
            THEN /\ t' = t + 1
                 /\ pc' = "intensity"
            ELSE /\ pc' = "finalize"
                 /\ UNCHANGED t
       ELSE /\ pc' = PhaseAfter("record")
            /\ UNCHANGED t
    /\ UNCHANGED <<rng, parameters, panic, panic_intensity, agent_states,
                   outcome, summary, statusWrites, pre, reference, runs, model>>
    /\ UNCHANGED hvars

\* summary = self._calculate_summary(results, panic); return results
Finalize ==
    /\ pc = "finalize"
    /\ summary' = CalculateSummary(results, panic)
    /\ outcome' = "returned"
    /\ pc' = "idle"
    /\ readSlots' = 0 .. (parameters.periods - 1)
    /\ DiscardLocals
    /\ UNCHANGED <<rng, parameters, panic, results, reference, runs, model>>
    /\ UNCHANGED hvars

(***************************************************************************)
(* BankPanicModel: parameters, shock descriptor and helpers.               *)
(***************************************************************************)
NumBanks == 3
BankMaxPeriods == 5

\* the defaults of BankPanicModel._validate_parameters the model does not vary
BankDefaults ==
    [ total_deposits |-> FNorm(1, 11),
      loan_portfolio |-> FNorm(8, 10),
      base_withdrawal_rate |-> 200,
      panic_multiplier |-> 75000,
      cb_intervention_threshold |-> 2000,
      cb_max_support |-> FNorm(5, 10),
      cb_response_delay |-> 1,
      credit_contraction_rate |-> 500,
      gdp_impact_multiplier |-> 200,
      num_banks |-> NumBanks,
      liquid_reserves |-> FNorm(15, 9),
      capital_buffer |-> FNorm(8, 9),
      contagion_threshold |-> 3000,
      recovery_rate |-> 8000,
      periods |-> 30 ]

BankOverrides ==
    [ periods : 1 .. BankMaxPeriods,
      recovery_rate : {0, 8000, SCALE},
      liquid_reserves : { FNorm(15, 9), FNorm(25, 8) } ]

BankValidateParameters(params) ==
    [ k \in (DOMAIN BankDefaults) \cup (DOMAIN params) |->
        IF k \in DOMAIN params THEN params[k] ELSE BankDefaults[k] ]

\* BankPanicShock as parsed from simulation_config['panic']
BankPanicConfigs ==
    [ withdrawal_rate : {15 * SCALE},
      panic_duration : 0 .. MaxDuration,
      start_period : 0 .. MaxStart,
      contagion_factor : {1000} ]

\* base ** k
RECURSIVE FxPow(_, _)
FxPow(b, k) == IF k <= 0 THEN SCALE ELSE FxMul(FxPow(b, k - 1), b)

\* the tail already reduced in the first period after the window
DecayPeriodPlusOne(panic_period, duration) == panic_period - duration + 1

\* exponent of the recovery rate in the tail of the bank panic
DecayPeriod(panic_period, duration) == panic_period - duration

\* BankPanicModel._calculate_panic_intensity (constant peak, then decay)
BankCalculatePanicIntensity(p, period, pk) ==
    IF period < pk.start_period THEN 0
    ELSE LET panic_period == period - pk.start_period
         IN  IF panic_period < pk.panic_duration
             THEN SCALE
             ELSE Max(0, FxPow(p.recovery_rate,
                               DecayPeriod(panic_period, pk.panic_duration)))

RECURSIVE FSumSeq(_)
FSumSeq(s) == IF s = << >> THEN FZero ELSE FAdd(Head(s), FSumSeq(Tail(s)))

\* (a / b) * 100 as a fixed-point percentage
PercentOf(a, b) == FDivFx(a, b) * 100

BankInitResults(p) ==
    [ withdrawal_rate |-> Full(p.periods, p.base_withdrawal_rate),
      daily_withdrawals |-> Full(p.periods, FZero),
      remaining_deposits |-> Full(p.periods, p.total_deposits),
      liquid_reserves |-> Full(p.periods, p.liquid_reserves),
      liquidity_ratio |-> Full(p.periods, 0),
      central_bank_support |-> Full(p.periods, FZero),
      banks_failed |-> Full(p.periods, 0),
      credit_available |-> Full(p.periods, p.loan_portfolio),
      gdp_impact |-> Full(p.periods, FZero),
      panic_intensity |-> Full(p.periods, 0) ]

\* _update_bank_state
UpdateBankState(p, res, period, withdrawal_rate) ==
    IF period = 0
    THEN [res EXCEPT !.liquidity_ratio =
              SetSlot(@, 0, PercentOf(Slot(res.liquid_reserves, 0),
                                      Slot(res.remaining_deposits, 0)))]
    ELSE LET prev_deposits == Slot(res.remaining_deposits, period - 1)
             daily_withdrawals == FMul(prev_deposits, FromFx(withdrawal_rate))
             new_deposits == FMax(FZero, FSub(prev_deposits, daily_withdrawals))
             available_liquidity ==
                 FAdd(Slot(res.liquid_reserves, period - 1),
                      Slot(res.central_bank_support, period - 1))
             new_reserves ==
                 FMax(FZero, FSub(available_liquidity, daily_withdrawals))
         IN  [res EXCEPT
                 !.daily_withdrawals = SetSlot(@, period, daily_withdrawals),
                 !.remaining_deposits = SetSlot(@, period, new_deposits),
                 !.liquid_reserves = SetSlot(@, period, new_reserves),
                 !.liquidity_ratio = SetSlot(@, period,
                     IF new_deposits.m > 0
                     THEN PercentOf(new_reserves, new_deposits) ELSE 0)]

\* _check_central_bank_intervention
CheckCentralBankIntervention(p, res, period) ==
    IF /\ Slot(res.liquidity_ratio, period) < p.cb_intervention_threshold * 100
       /\ period >= p.cb_response_delay
    THEN [res EXCEPT !.central_bank_support = SetSlot(@, period,
              FMin(FMul(Slot(res.daily_withdrawals, period), FromInt(7)),
                   p.cb_max_support))]
    ELSE res

\* number of banks that fail in a period (0 if none)
TotalFailures(p, ratio, alive, contagion_factor) ==
    IF ratio < 5 * SCALE
    THEN LET failure_probability ==
                 Max(0, (5 * SCALE - ratio) \div 5)
             new_failures == (failure_probability * alive) \div SCALE
             contagion_failures ==
                 (new_failures * contagion_factor * p.num_banks) \div SCALE
         IN  IF new_failures > 0
             THEN Min(new_failures + contagion_failures, alive)
             ELSE 0
    ELSE 0

\* the alive banks, in index order
RECURSIVE AliveBanks(_, _)
AliveBanks(survival, i) ==
    IF i > Len(survival) THEN << >>
    ELSE IF survival[i] = 1 THEN << i >> \o AliveBanks(survival, i + 1)
    ELSE AliveBanks(survival, i + 1)

\* np.random.choice(alive_banks, k, replace=False) drawn in generator state r
RandomChoice(alive_banks, k, r) ==
    { alive_banks[((r + j) % Len(alive_banks)) + 1] : j \in 0 .. (k - 1) }

\* a survival array rebuilt from the banks chosen in this period alone
UpdateBankFailuresRebuilt(p, res, period, survival, contagion_factor, r) ==
    LET total_failures ==
            TotalFailures(p, Slot(res.liquidity_ratio, period),
                          SumSeq(survival), contagion_factor)
        alive_banks == AliveBanks(survival, 1)
    IN  IF total_failures > 0 /\ Len(alive_banks) >= total_failures
        THEN LET failed == RandomChoice(alive_banks, total_failures, r)
             IN  [ i \in 1 .. Len(survival) |->
                     IF i \in failed THEN 0 ELSE 1 ]
        ELSE survival

\* _update_bank_failures: the survival array after the period
UpdateBankFailures(p, res, period, survival, contagion_factor, r) ==
    LET total_failures ==
            TotalFailures(p, Slot(res.liquidity_ratio, period),
                          SumSeq(survival), contagion_factor)
        alive_banks == AliveBanks(survival, 1)
    IN  IF total_failures > 0 /\ Len(alive_banks) >= total_failures
        THEN LET failed == RandomChoice(alive_banks, total_failures, r)
             IN  [ i \in 1 .. Len(survival) |->
                     IF i \in failed THEN 0 ELSE survival[i] ]
        ELSE survival

\* whether _update_bank_failures draws from the generator
FailuresDraw(p, res, period, survival, contagion_factor) ==
    TotalFailures(p, Slot(res.liquidity_ratio, period), SumSeq(survival),
                  contagion_factor) > 0

\* _calculate_economic_impacts
CalculateEconomicImpacts(p, res, period) ==
    LET credit ==
            IF period = 0 THEN p.loan_portfolio
            ELSE LET failure_rate ==
                         (Slot(res.banks_failed, period) * SCALE)
                             \div p.num_banks
                     liquidity_stress ==
                         Max(0, (20 * SCALE - Slot(res.liquidity_ratio, period))
                                    \div 20)
                     credit_reduction_rate ==
                         FxMul(failure_rate, 5000)
                             + FxMul(liquidity_stress, p.credit_contraction_rate)
                     prev == Slot(res.credit_available, period - 1)
                 IN  FMax(FZero,
                          FSub(prev, FMul(prev, FromFx(credit_reduction_rate))))
        credit_loss == FSub(p.loan_portfolio, credit)
    IN  [res EXCEPT
            !.credit_available = SetSlot(@, period, credit),
            !.gdp_impact = SetSlot(@, period,
                FNeg(FMul(FMul(credit_loss, FNorm(1, -12)),
                          FromFx(p.gdp_impact_multiplier))))]

Infinity == 999

\* int(x): the fraction is dropped
Trunc(x) == Sgn(x) * (Abs(x) \div SCALE)

\* the quotient rounded to the nearest day
SurvivalDaysRounded(total_liquidity, daily_withdrawals) ==
    Trunc(FDivFx(total_liquidity, daily_withdrawals) + SCALE \div 2)

\* int(total_liquidity / daily_withdrawals)
SurvivalDays(total_liquidity, daily_withdrawals) ==
    Trunc(FDivFx(total_liquidity, daily_withdrawals))

\* simulate_bank_panic; withdrawal_rate is a fixed-point percentage
SimulateBankPanic(total_deposits, liquid_reserves, withdrawal_rate, cb_support) ==
    LET daily_withdrawals == FMul(total_deposits, FromFx(withdrawal_rate \div 100))
        total_liquidity == FAdd(liquid_reserves, cb_support)
        finite == daily_withdrawals.m > 0
        survival_days ==
            IF finite THEN SurvivalDays(total_liquidity, daily_withdrawals)
            ELSE Infinity
        remaining_liquidity ==
            FMax(FZero, FSub(total_liquidity, daily_withdrawals))
    IN  [ daily_withdrawals |-> daily_withdrawals,
          remaining_liquidity |-> remaining_liquidity,
          survival_days |-> survival_days,
          bank_survives |-> (~finite) \/ survival_days >= 7,
          liquidity_ratio |->
              IF total_deposits.m > 0
              THEN PercentOf(remaining_liquidity, total_deposits) ELSE 0 ]

\* BankPanicModel._calculate_summary
BankCalculateSummary(p, res, survival) ==
    [ max_daily_withdrawals |-> FSeqMax(res.daily_withdrawals),
      total_withdrawals |-> FSumSeq(res.daily_withdrawals),
      min_liquidity_ratio |-> SeqMin(res.liquidity_ratio),
      total_cb_support |-> FSumSeq(res.central_bank_support),
      max_banks_failed |-> SeqMax(res.banks_failed),
      final_banks_surviving |-> SumSeq(survival),
      total_gdp_impact |-> FSumSeq(res.gdp_impact),
      peak_gdp_impact |-> FSeqMin(res.gdp_impact),
      crisis_severity |->
          IF SeqMax(res.banks_failed) > 3 THEN "High"
          ELSE IF SeqMax(res.banks_failed) > 1 THEN "Medium" ELSE "Low",
      final_assessment |->
          SimulateBankPanic(p.total_deposits,
              res.liquid_reserves[Len(res.liquid_reserves)],
              res.withdrawal_rate[Len(res.withdrawal_rate)] * 100,
              FSumSeq(res.central_bank_support)) ]

(***************************************************************************)
(* The time-stepped driver: BankPanicModel.simulate.                       *)
(***************************************************************************)
\* BankPanicModel(parameters), when no call is in progress
BankConstruct(o) ==
    /\ pc = "idle"
    /\ runs < MaxRuns
    /\ parameters' = BankValidateParameters(o)
    /\ model' = "bank"
    /\ parameters' # parameters
    /\ outcome' = "none"
    /\ results' = NoResults
    /\ summary' = NoSummary
    /\ panic' = NoPanic
    /\ readSlots' = {}
    /\ reference' = NoReference
    /\ UNCHANGED <<rng, pc, t, panic_intensity, agent_states,
                   statusWrites, pre, runs>>
    /\ UNCHANGED hvars

\* simulate(simulation_config), up to the start of the loop
BankSimulate(cfg) ==
    /\ pc = "idle"
    /\ model = "bank"
    /\ parameters.periods >= 1
    /\ runs < MaxRuns
    /\ runs' = runs + 1
    /\ panic' = cfg
    /\ results' = BankInitResults(parameters)
    /\ agent_states' = [ bank_survival_status |-> Full(parameters.num_banks, 1) ]
    /\ summary' = NoSummary
    /\ outcome' = "running"
    /\ t' = 0
    /\ panic_intensity' = 0
    /\ readSlots' = {}
    /\ reference' = NoReference
    /\ pc' = "bank_period"
    /\ UNCHANGED <<rng, parameters, model, statusWrites, pre>>
    /\ UNCHANGED hvars

\* withdrawal rate of a period
CurrentWithdrawalRate(p, intensity) ==
    IF intensity > 0
    THEN FxMul(p.base_withdrawal_rate, SCALE + FxMul(intensity, p.panic_multiplier))
    ELSE p.base_withdrawal_rate

\* one iteration of the loop of simulate
BankPeriod ==
    /\ pc = "bank_period"
    /\ LET intensity == BankCalculatePanicIntensity(parameters, t, panic)
           rate == CurrentWithdrawalRate(parameters, intensity)
           r1 == [results EXCEPT
                     !.panic_intensity = SetSlot(@, t, intensity),
                     !.withdrawal_rate = SetSlot(@, t, rate)]
           r2 == UpdateBankState(parameters, r1, t, rate)
           r3 == CheckCentralBankIntervention(parameters, r2, t)
           survival == UpdateBankFailures(parameters, r3, t,
                           agent_states.bank_survival_status,
                           panic.contagion_factor, rng)
           r4 == [r3 EXCEPT !.banks_failed =
                     SetSlot(@, t, parameters.num_banks - SumSeq(survival))]
       IN  /\ panic_intensity' = intensity
           /\ agent_states' = [ bank_survival_status |-> survival ]
           /\ results' = CalculateEconomicImpacts(parameters, r4, t)
           /\ rng' = IF FailuresDraw(parameters, r3, t,
                            agent_states.bank_survival_status,
                            panic.contagion_factor)
                     THEN RngNext(rng) ELSE rng
    /\ readSlots' = IF t = 0 THEN {t} ELSE {t - 1, t}
    /\ IF t + 1 < parameters.periods
       THEN /\ t' = t + 1
            /\ UNCHANGED pc
       ELSE /\ pc' = "bank_finalize"
            /\ UNCHANGED t
    /\ UNCHANGED <<parameters, panic, outcome, summary, statusWrites, pre,
                   reference, runs, model>>
    /\ UNCHANGED hvars

\* results['summary'] = self._calculate_summary(...); return results
BankFinalize ==
    /\ pc = "bank_finalize"
    /\ summary' = BankCalculateSummary(parameters, results,
                      agent_states.bank_survival_status)
    /\ outcome' = "returned"
    /\ pc' = "idle"
    /\ readSlots' = 0 .. (parameters.periods - 1)
    /\ DiscardLocals
    /\ UNCHANGED <<rng, parameters, panic, results, reference, runs, model>>
    /\ UNCHANGED hvars

(***************************************************************************)
(* SimulationEngine, the caller's dict objects and the second thread, at   *)
(* rest: no engine call, no dict, no function call, one thread.            *)
(***************************************************************************)
\* the names _register_models puts in self.models
Registry ==
    { "interest_rate", "inflation_shock", "bank_panic",
      "military_spending_shock", "global_conflict", "earth_rotation_shock",
      "btc_price_projection", "ai_unemployment_shock",
      "plastic_spread_simulation", "geopolitical_land_analyst",
      "crypto_panic" }

NoScenario == [ model |-> "", parameters |-> 0 ]
NoEngineCall ==
    [ models |-> Registry, active |-> FALSE, scenario |-> NoScenario,
      op |-> "none", path |-> "" ]
NoArgs == [ fn |-> "none" ]
NoRet ==
    [ op |-> "none", path |-> "", scenario |-> NoScenario, kind |-> "none",
      type |-> "none", message |-> << >>, cause |-> "none" ]
OneThread == [ tid |-> 1, interrupted |-> {}, parked |-> [ pc |-> "none" ] ]

HarnessAtRest ==
    /\ heap = << >>
    /\ instances = << >>
    /\ engine = NoEngineCall
    /\ args = NoArgs
    /\ ret = NoRet
    /\ threads = OneThread

Init ==
    /\ rng \in RngStates
    /\ parameters = ValidateParameters(NoInstance)
    /\ pc = "idle"
    /\ t = 0
    /\ panic = NoPanic
    /\ panic_intensity = 0
    /\ results = NoResults
    /\ agent_states = NoAgents
    /\ outcome = "none"
    /\ summary = NoSummary
    /\ statusWrites = << >>
    /\ pre = NoAgents
    /\ readSlots = {}
    /\ reference = NoReference
    /\ runs = 0
    /\ model = "none"
    /\ HarnessAtRest

Next ==
    \/ \E o \in Overrides : Construct(o)
    \/ ExternalDraw
    \/ \E cfg \in PanicConfigs : Simulate(cfg)
    \/ CalcIntensity
    \/ UpdateAgentBehaviors
    \/ UpdateAssetPrices
    \/ UpdateExchangeStates
    \/ RecordMetrics
    \/ Finalize
    \/ \E o \in BankOverrides : BankConstruct(o)
    \/ \E cfg \in BankPanicConfigs : BankSimulate(cfg)
    \/ BankPeriod
    \/ BankFinalize

Spec == Init /\ [][Next]_vars

(***************************************************************************)
(* Direct calls of _update_exchange_states on a hand-built exchange pool.  *)
(***************************************************************************)

UnitInit ==
    /\ rng \in {0}
    /\ \E thr \in FreezeThresholds :
           parameters = ValidateParameters(
               [ periods |-> 1, random_seed |-> 42,
                 exchange_freeze_threshold |-> thr,
                 price_volatility_base |-> 200 ])
    /\ pc = "exchanges"
    /\ t = 0
    /\ panic = NoPanic
    /\ panic_intensity = 0
    /\ results = [InitResults(parameters) EXCEPT
                      !.liquidation_volume = Full(1, FZero)]
    /\ \E rs \in [1 .. NumExchanges -> {3500, 4000, 8500, SCALE}],
          st \in [1 .. NumExchanges -> {0, 1}],
          wp \in [1 .. NumExchanges ->
                    {-10000, 0, 500, 1000, 10000}] :
           agent_states = [NoAgents EXCEPT
               !.liquidity_reserves = rs,
               !.operational_status = st,
               !.withdrawal_pressure = wp]
    /\ outcome = "running"
    /\ summary = NoSummary
    /\ statusWrites = Full(NumExchanges, << >>)
    /\ pre = agent_states
    /\ readSlots = {}
    /\ reference = NoReference
    /\ runs = 1
    /\ model = "crypto"
    /\ HarnessAtRest

SpecUnit == UnitInit /\ [][UpdateExchangeStates]_vars

(***************************************************************************)
(* Repeated calls of simulate on one CryptoPanicModel instance.            *)
(***************************************************************************)
\* the shocks replayed: none, and one of intensity 0.6
RepeatConfigs ==
    [ trigger_intensity : {0, 6000},
      panic_duration : 0 .. MaxDuration,
      start_period : 0 .. MaxStart ]

RepeatInit ==
    /\ rng \in RngStates
    /\ \E o \in [ periods : 1 .. MaxPeriods, random_seed : Seeds ] :
          parameters = ValidateParameters(o)
    /\ pc = "idle"
    /\ t = 0
    /\ panic = NoPanic
    /\ panic_intensity = 0
    /\ results = NoResults
    /\ agent_states = NoAgents
    /\ outcome = "none"
    /\ summary = NoSummary
    /\ statusWrites = << >>
    /\ pre = NoAgents
    /\ readSlots = {}
    /\ reference = NoReference
    /\ runs = 0
    /\ model = "crypto"
    /\ HarnessAtRest

RepeatNext ==
    \/ ExternalDraw
    \/ \E cfg \in RepeatConfigs : Simulate(cfg)
    \/ CalcIntensity
    \/ UpdateAgentBehaviors
    \/ UpdateAssetPrices
    \/ UpdateExchangeStates
    \/ RecordMetrics
    \/ Finalize

SpecRepeat == RepeatInit /\ [][RepeatNext]_vars

(***************************************************************************)
(* One call of simulate on a BankPanicModel instance, over reserves above  *)
(* and below the intervention threshold and shocks with and without panic. *)
(***************************************************************************)
BankRunInit ==
    /\ rng \in RngStates
    /\ \E o \in [ periods : 1 .. BankMaxPeriods,
                  liquid_reserves :
                      { FNorm(15, 9), FNorm(25, 8), FNorm(3, 10) } ] :
          parameters = BankValidateParameters(o)
    /\ pc = "idle"
    /\ t = 0
    /\ panic = NoPanic
    /\ panic_intensity = 0
    /\ results = NoResults
    /\ agent_states = NoAgents
    /\ outcome = "none"
    /\ summary = NoSummary
    /\ statusWrites = << >>
    /\ pre = NoAgents
    /\ readSlots = {}
    /\ reference = NoReference
    /\ runs = MaxRuns - 1
    /\ model = "bank"
    /\ HarnessAtRest

BankRunNext ==
    \/ \E cfg \in [ withdrawal_rate : { 0, 15 * SCALE },
                    panic_duration : { 0, MaxDuration },
                    start_period : 0 .. MaxStart,
                    contagion_factor : { 1000 } ] : BankSimulate(cfg)
    \/ BankPeriod
    \/ BankFinalize

SpecBank == BankRunInit /\ [][BankRunNext]_vars

(***************************************************************************)

(* Two calls of simulate on one instance, the caller keeping the dict the  *)
(* first call returned.                                                    *)
(***************************************************************************)
\* shocks that name their kind of trigger and their contagion factor
TriggerConfigs ==
    [ trigger_type : { "whale_dump", "doge_pump" },
      trigger_intensity : { 6000, SCALE },
      panic_duration : { 2 },
      start_period : { 0 },
      contagion_factor : { 1500, 9000 } ]

TriggerInit ==
    /\ rng \in {0}
    /\ \E o \in [ periods : 1 .. MaxPeriods, random_seed : Seeds ] :
          parameters = ValidateParameters(o)
    /\ pc = "idle"
    /\ t = 0
    /\ panic = NoPanic
    /\ panic_intensity = 0
    /\ results = NoResults
    /\ agent_states = NoAgents
    /\ outcome = "none"
    /\ summary = NoSummary
    /\ statusWrites = << >>
    /\ pre = NoAgents
    /\ readSlots = {}
    /\ reference = NoReference
    /\ runs = 0
    /\ model = "crypto"
    /\ HarnessAtRest

\* first = model.simulate(config): the caller keeps the returned dict
KeepResult ==
    /\ pc = "idle"
    /\ model = "crypto"
    /\ outcome = "returned"
    /\ ret = NoRet
    /\ ret' = [ kind |-> "returned", panic |-> panic, results |-> results,
                summary |-> summary ]
    /\ UNCHANGED <<rng, parameters, pc, t, panic, panic_intensity, results,
                   agent_states, outcome, summary, statusWrites, pre,
                   readSlots, reference, runs, model, heap, instances,
                   engine, args, threads>>

TriggerNext ==
    \/ \E cfg \in TriggerConfigs : Simulate(cfg)
    \/ CalcIntensity
    \/ UpdateAgentBehaviors
    \/ UpdateAssetPrices
    \/ UpdateExchangeStates
    \/ RecordMetrics
    \/ Finalize
    \/ KeepResult

SpecTrigger == TriggerInit /\ [][TriggerNext]_vars

(***************************************************************************)

(* SimulationEngine and the caller: dict objects are held by identity, so  *)
(* that a model instance and its caller can share one.                     *)
(***************************************************************************)
MaxDicts == 2
MaxInstances == 2

DictIds == 1 .. MaxDicts
Classes == { "crypto", "bank" }

\* dict literals the caller writes
ParamMaps ==
    { [ periods |-> 2, random_seed |-> 7 ],
      [ periods |-> 1, exchange_freeze_threshold |-> 9000,
        custom_label |-> 1 ] }

\* values of scenario.get('model'); "None" is the absent key
ModelNames == { "crypto_panic", "bank_panic", "unknown_model", "None" }

\* self.models[model_name] for the classes of this module
ClassOf(name) == IF name = "crypto_panic" THEN "crypto" ELSE "bank"

DefaultsOf(class) == IF class = "crypto" THEN Defaults ELSE BankDefaults

\* cls._validate_parameters(params) on the dict object itself
ValidateFor(class, params) ==
    IF class = "crypto" THEN ValidateParameters(params)
    ELSE BankValidateParameters(params)

\* scenario files, by path
Files ==
    [ missing_json |-> [ state |-> "missing" ],
      broken_json |-> [ state |-> "malformed" ],
      crypto_json |-> [ state |-> "ok", model |-> "crypto_panic",
                        parameters |-> [ periods |-> 1 ] ],
      typo_json |-> [ state |-> "ok", model |-> "unknown_model",
                      parameters |-> [ periods |-> 1 ] ] ]

\* what open / json.load raise; the except clause re-raises it as it is
LoadError(path) ==
    IF Files[path].state = "missing"
    THEN [ type |-> "FileNotFoundError",
           message |-> << "[Errno 2] No such file or directory: ", path >>,
           cause |-> "none" ]
    ELSE [ type |-> "JSONDecodeError",
           message |-> << "Expecting value: line 1 column 1 (char 0)" >>,
           cause |-> "none" ]

\* the message without the requested name
DispatchErrorNoName(name) ==
    [ type |-> "ValueError", message |-> << "Unknown model" >>,
      cause |-> "none" ]

\* ValueError(f"Unknown model: {model_name}")
DispatchError(name) ==
    [ type |-> "ValueError", message |-> << "Unknown model: ", name >>,
      cause |-> "none" ]

Raise(op, path, scenario, err) ==
    [ op |-> op, path |-> path, scenario |-> scenario, kind |-> "raised",
      type |-> err.type, message |-> err.message, cause |-> err.cause ]

\* the state a freshly constructed instance leaves the driver in
Fresh ==
    /\ outcome' = "none"
    /\ results' = NoResults
    /\ summary' = NoSummary
    /\ panic' = NoPanic
    /\ readSlots' = {}
    /\ reference' = NoReference
    /\ UNCHANGED <<rng, pc, t, panic_intensity, agent_states, statusWrites,
                   pre, runs>>

CallerAtRest == pc = "idle" /\ ~engine.active

\* the caller writes a dict literal (all of them before its first call)
NewDict(o) ==
    /\ CallerAtRest
    /\ instances = << >>
    /\ ret = NoRet
    /\ Len(heap) < MaxDicts
    /\ heap' = Append(heap, o)
    /\ UNCHANGED <<rng, parameters, pc, t, panic, panic_intensity, results,
                   agent_states, outcome, summary, statusWrites, pre,
                   readSlots, reference, runs, model, instances, engine,
                   args, ret, threads>>

\* self.parameters = self._validate_parameters(parameters): the merge is
\* done on dict d of heap h itself, and the instance keeps d
Build(class, d, h) ==
    /\ heap' = [h EXCEPT ![d] = ValidateFor(class, h[d])]
    /\ instances' = Append(instances,
           [ class |-> class, params |-> d, given |-> h[d],
             built |-> heap'[d] ])
    /\ parameters' = heap'[d]
    /\ model' = class
    /\ Fresh

\* cls(d): the caller constructs a model on one of its dicts
ConstructFrom(class, d) ==
    /\ CallerAtRest
    /\ d <= Len(heap)
    /\ Len(instances) < MaxInstances
    /\ Build(class, d, heap)
    /\ UNCHANGED <<engine, args, ret, threads>>

\* run_simulation(scenario), up to the call of model.simulate; h is the
\* heap when run_simulation is entered
Dispatch(op, path, s, h) ==
    IF s.model \notin engine.models
    THEN /\ ret' = Raise(op, path, s, DispatchError(s.model))
         /\ heap' = h
         /\ UNCHANGED <<rng, parameters, pc, t, panic, panic_intensity,
                        results, agent_states, outcome, summary,
                        statusWrites, pre, readSlots, reference, runs,
                        model, instances, engine>>
    ELSE /\ s.model \in { "crypto_panic", "bank_panic" }
         /\ Len(instances) < MaxInstances
         /\ Build(ClassOf(s.model), s.parameters, h)
         /\ engine' = [engine EXCEPT !.active = TRUE, !.scenario = s,
                                     !.op = op, !.path = path]
         /\ UNCHANGED ret

\* engine.run_simulation(scenario), scenario['parameters'] being dict d
RunSimulation(name, d) ==
    /\ CallerAtRest
    /\ d <= Len(heap)
    /\ Dispatch("run_simulation", "", [ model |-> name, parameters |-> d ],
                heap)
    /\ UNCHANGED <<args, threads>>

\* engine.run_scenario_file(path): load_scenario, then run_simulation on
\* the dicts json.load has built
RunScenarioFile(path) ==
    /\ CallerAtRest
    /\ IF Files[path].state # "ok"
       THEN /\ ret' = Raise("run_scenario_file", path, NoScenario,
                            LoadError(path))
            /\ UNCHANGED <<rng, parameters, pc, t, panic, panic_intensity,
                           results, agent_states, outcome, summary,
                           statusWrites, pre, readSlots, reference, runs,
                           model, heap, instances, engine>>
       ELSE /\ Len(heap) < MaxDicts
            /\ Dispatch("run_scenario_file", path,
                   [ model |-> Files[path].model,
                     parameters |-> Len(heap) + 1 ],
                   Append(heap, Files[path].parameters))
    /\ UNCHANGED <<args, threads>>

\* the exception of simulate leaves run_simulation as it is
EngineRaise ==
    /\ engine.active
    /\ pc = "idle"
    /\ outcome = "raised"
    /\ ret' = Raise(engine.op, engine.path, engine.scenario,
                    [ type |-> "ZeroDivisionError",
                      message |-> << "division by zero" >>,
                      cause |-> "none" ])
    /\ engine' = [engine EXCEPT !.active = FALSE]
    /\ UNCHANGED <<rng, parameters, pc, t, panic, panic_intensity, results,
                   agent_states, outcome, summary, statusWrites, pre,
                   readSlots, reference, runs, model, heap, instances,
                   args, threads>>

\* simulation_results = {'model': ..., 'scenario': scenario, 'results': ...}
Package ==
    /\ engine.active
    /\ pc = "idle"
    /\ outcome = "returned"
    /\ ret' = [ op |-> engine.op, path |-> engine.path,
                scenario |-> engine.scenario, kind |-> "returned",
                type |-> "none", message |-> << >>, cause |-> "none" ]
    /\ engine' = [engine EXCEPT !.active = FALSE]
    /\ UNCHANGED <<rng, parameters, pc, t, panic, panic_intensity, results,
                   agent_states, outcome, summary, statusWrites, pre,
                   readSlots, reference, runs, model, heap, instances,
                   args, threads>>

\* the shocks run through the engine and on the caller's instances
EngineConfigs ==
    { [ trigger_intensity |-> 6000, panic_duration |-> 2, start_period |-> 0 ],
      [ trigger_intensity |-> 6000, panic_duration |-> 1, start_period |-> 0 ] }
EngineBankConfigs ==
    { [ withdrawal_rate |-> 15 * SCALE, panic_duration |-> 1,
        start_period |-> 0, contagion_factor |-> 1000 ] }

EngineInit ==
    /\ rng \in {0}
    /\ parameters = ValidateParameters(NoInstance)
    /\ pc = "idle"
    /\ t = 0
    /\ panic = NoPanic
    /\ panic_intensity = 0
    /\ results = NoResults
    /\ agent_states = NoAgents
    /\ outcome = "none"
    /\ summary = NoSummary
    /\ statusWrites = << >>
    /\ pre = NoAgents
    /\ readSlots = {}
    /\ reference = NoReference
    /\ runs = 0
    /\ model = "none"
    /\ HarnessAtRest

EngineNext ==
    \/ \E o \in ParamMaps : NewDict(o)
    \/ \E class \in Classes, d \in DictIds : ConstructFrom(class, d)
    \/ \E name \in ModelNames, d \in DictIds : RunSimulation(name, d)
    \/ \E path \in DOMAIN Files : RunScenarioFile(path)
    \/ \E cfg \in EngineConfigs : Simulate(cfg)
    \/ CalcIntensity
    \/ UpdateAgentBehaviors
    \/ UpdateAssetPrices
    \/ UpdateExchangeStates
    \/ RecordMetrics
    \/ Finalize
    \/ \E cfg \in EngineBankConfigs : BankSimulate(cfg)
    \/ BankPeriod
    \/ BankFinalize
    \/ EngineRaise
    \/ Package

SpecEngine == EngineInit /\ [][EngineNext]_vars

(***************************************************************************)
(* Direct calls of the module-level function simulate_bank_panic.          *)
(***************************************************************************)
BankFnInit ==
    /\ rng \in {0}
    /\ parameters = ValidateParameters(NoInstance)
    /\ pc = "idle"
    /\ t = 0
    /\ panic = NoPanic
    /\ panic_intensity = 0
    /\ results = NoResults
    /\ agent_states = NoAgents
    /\ outcome = "none"
    /\ summary = NoSummary
    /\ statusWrites = << >>
    /\ pre = NoAgents
    /\ readSlots = {}
    /\ reference = NoReference
    /\ runs = 0
    /\ model = "none"
    /\ heap = << >>
    /\ instances = << >>
    /\ engine = NoEngineCall
    /\ args \in [ fn : { "simulate_bank_panic" },
                  total_deposits : { FZero, FNorm(1, 11) },
                  liquid_reserves : { FNorm(1, 10), FNorm(15, 9), FNorm(7, 10) },
                  withdrawal_rate : { -5 * SCALE, 0, 8 * SCALE, 10 * SCALE,
                                    20 * SCALE },
                  central_bank_support : { FZero, FNorm(1, 10),
                                         FNorm(5, 10) } ]
    /\ ret = NoRet
    /\ threads = OneThread

\* result = simulate_bank_panic(**args)
CallSimulateBankPanic ==
    /\ args.fn = "simulate_bank_panic"
    /\ ret = NoRet
    /\ ret' = SimulateBankPanic(args.total_deposits, args.liquid_reserves,
                  args.withdrawal_rate, args.central_bank_support)
    /\ UNCHANGED <<rng, parameters, pc, t, panic, panic_intensity, results,
                   agent_states, outcome, summary, statusWrites, pre,
                   readSlots, reference, runs, model, heap, instances,
                   engine, args, threads>>

SpecBankFn == BankFnInit /\ [][CallSimulateBankPanic]_vars

(***************************************************************************)
(* InterestRateModel.simulate and InflationShockModel.simulate: the shock  *)
(* series and the series the shock is added to.                            *)
(***************************************************************************)
ShockMaxPeriods == 5

\* defaults of InterestRateModel._validate_parameters the series depend on
InterestRateDefaults ==
    [ gdp_sensitivity |-> -3000, baseline_gdp_growth |-> 200 ]

\* defaults of InflationShockModel._validate_parameters, likewise
InflationShockDefaults == [ baseline_inflation |-> 250 ]

\* InterestRateShock / InflationShock as parsed from simulation_config
ShockConfigs ==
    [ magnitude : { -5000, 0, 10000, 50000 },
      duration : 0 .. MaxDuration,
      start_period : 0 .. (MaxStart + 1) ]

\* the shock is counted from the period after its start
ShockPeriodFromOne(period, shock) == period - shock.start_period + 1

\* shock_period = t - shock.start_period
ShockPeriod(period, shock) == period - shock.start_period

\* shock.start_period <= t < shock.start_period + shock.duration
ShockActive(period, shock) ==
    /\ shock.start_period <= period
    /\ period < shock.start_period + shock.duration

\* current_shock = magnitude * persistence ** shock_period
CurrentShock(persistence, period, shock) ==
    FxMul(shock.magnitude, FxPow(persistence, ShockPeriod(period, shock)))

\* np.zeros(periods), written in the periods of the shock
ShockSeries(periods, persistence, shock) ==
    [ i \in 1 .. periods |->
        IF ShockActive(i - 1, shock)
        THEN CurrentShock(persistence, i - 1, shock) ELSE 0 ]

\* InterestRateModel.simulate: interest_rate_shock and gdp_growth
InterestRateSeries(periods, persistence, shock) ==
    LET series == ShockSeries(periods, persistence, shock)
    IN  [ shock |-> series,
          level |-> [ i \in 1 .. periods |->
              InterestRateDefaults.baseline_gdp_growth
                  + IF ShockActive(i - 1, shock)
                    THEN FxMul(series[i], InterestRateDefaults.gdp_sensitivity)
                    ELSE 0 ] ]

\* InflationShockModel.simulate: inflation_shock and inflation_rate
InflationShockSeries(periods, persistence, shock) ==
    LET series == ShockSeries(periods, persistence, shock)
    IN  [ shock |-> series,
          level |-> [ i \in 1 .. periods |->
              InflationShockDefaults.baseline_inflation
                  + IF ShockActive(i - 1, shock)
                    THEN series[i] \div 100 ELSE 0 ] ]

ShockInit ==
    /\ rng \in {0}
    /\ parameters = ValidateParameters(NoInstance)
    /\ pc = "idle"
    /\ t = 0
    /\ panic = NoPanic
    /\ panic_intensity = 0
    /\ results = NoResults
    /\ agent_states = NoAgents
    /\ outcome = "none"
    /\ summary = NoSummary
    /\ statusWrites = << >>
    /\ pre = NoAgents
    /\ readSlots = {}
    /\ reference = NoReference
    /\ runs = 0
    /\ model = "none"
    /\ heap = << >>
    /\ instances = << >>
    /\ engine = NoEngineCall
    /\ args \in [ fn : { "interest_rate", "inflation_shock" },
                  periods : 1 .. ShockMaxPeriods,
                  persistence : { 0, 8000, 9000, SCALE },
                  shock : ShockConfigs ]
    /\ ret = NoRet
    /\ threads = OneThread

\* InterestRateModel({'periods', 'persistence'}).simulate({'shock': shock})
InterestRateSimulate ==
    /\ args.fn = "interest_rate"
    /\ ret = NoRet
    /\ ret' = InterestRateSeries(args.periods, args.persistence, args.shock)
    /\ UNCHANGED <<rng, parameters, pc, t, panic, panic_intensity, results,
                   agent_states, outcome, summary, statusWrites, pre,
                   readSlots, reference, runs, model, heap, instances,
                   engine, args, threads>>

\* InflationShockModel({'periods', 'shock_persistence'}).simulate(...)
InflationShockSimulate ==
    /\ args.fn = "inflation_shock"
    /\ ret = NoRet
    /\ ret' = InflationShockSeries(args.periods, args.persistence, args.shock)
    /\ UNCHANGED <<rng, parameters, pc, t, panic, panic_intensity, results,
                   agent_states, outcome, summary, statusWrites, pre,
                   readSlots, reference, runs, model, heap, instances,
                   engine, args, threads>>

ShockNext == InterestRateSimulate \/ InflationShockSimulate

SpecShock == ShockInit /\ [][ShockNext]_vars

(***************************************************************************)
(* Two threads, each calling simulate on its own CryptoPanicModel, on the  *)
(* one generator of the process. The variables of the driver are those of  *)
(* the running thread; the other thread's are parked.                      *)
(***************************************************************************)
\* everything a thread owns: its instance and the locals of its call
Locals ==
    [ parameters |-> parameters, pc |-> pc, t |-> t, panic |-> panic,
      panic_intensity |-> panic_intensity, results |-> results,
      agent_states |-> agent_states, outcome |-> outcome,
      summary |-> summary, statusWrites |-> statusWrites, pre |-> pre,
      readSlots |-> readSlots, reference |-> reference, runs |-> runs,
      model |-> model ]

\* a thread that has built its model and is between two calls of simulate,
\* having made done calls before
IdleThread(seed, done) ==
    [ parameters |-> ValidateParameters([ periods |-> 2, random_seed |-> seed ]),
      pc |-> "idle", t |-> 0, panic |-> NoPanic, panic_intensity |-> 0,
      results |-> NoResults, agent_states |-> NoAgents, outcome |-> "none",
      summary |-> NoSummary, statusWrites |-> << >>, pre |-> NoAgents,
      readSlots |-> {}, reference |-> NoReference, runs |-> done,
      model |-> "crypto" ]

\* the calls taken away from a thread in mid-run: none is recorded
PreemptedNone(marks, tid) == marks

\* the calls taken away from a thread in mid-run, as (thread, call) pairs
Preempted(marks, tid) ==
    IF pc # "idle" THEN marks \cup { << tid, runs >> } ELSE marks

\* the interpreter hands the processor to the other thread
Switch ==
    /\ threads.parked.pc # "none"
    /\ parameters' = threads.parked.parameters
    /\ pc' = threads.parked.pc
    /\ t' = threads.parked.t
    /\ panic' = threads.parked.panic
    /\ panic_intensity' = threads.parked.panic_intensity
    /\ results' = threads.parked.results
    /\ agent_states' = threads.parked.agent_states
    /\ outcome' = threads.parked.outcome
    /\ summary' = threads.parked.summary
    /\ statusWrites' = threads.parked.statusWrites
    /\ pre' = threads.parked.pre
    /\ readSlots' = threads.parked.readSlots
    /\ reference' = threads.parked.reference
    /\ runs' = threads.parked.runs
    /\ model' = threads.parked.model
    /\ threads' = [ tid |-> 3 - threads.tid,
                    interrupted |-> Preempted(threads.interrupted, threads.tid),
                    parked |-> Locals ]
    /\ UNCHANGED <<rng, heap, instances, engine, args, ret>>

ThreadsInit ==
    /\ rng \in {0}
    /\ parameters = IdleThread(42, 0).parameters
    /\ pc = "idle"
    /\ t = 0
    /\ panic = NoPanic
    /\ panic_intensity = 0
    /\ results = NoResults
    /\ agent_states = NoAgents
    /\ outcome = "none"
    /\ summary = NoSummary
    /\ statusWrites = << >>
    /\ pre = NoAgents
    /\ readSlots = {}
    /\ reference = NoReference
    /\ runs = 0
    /\ model = "crypto"
    /\ heap = << >>
    /\ instances = << >>
    /\ engine = NoEngineCall
    /\ args = NoArgs
    /\ ret = NoRet
    /\ threads = [ tid |-> 1, interrupted |-> {}, parked |-> IdleThread(7, MaxRuns - 1) ]

ThreadsNext ==
    \/ Switch
    \/ \E cfg \in { [ trigger_intensity |-> 6000, panic_duration |-> 2,
                     start_period |-> 0 ] } : Simulate(cfg)
    \/ CalcIntensity
    \/ UpdateAgentBehaviors
    \/ UpdateAssetPrices
    \/ UpdateExchangeStates
    \/ RecordMetrics
    \/ Finalize

SpecThreads == ThreadsInit /\ [][ThreadsNext]_vars

(***************************************************************************)
(* The panic_intensity series of CryptoPanicModel.simulate over long       *)
(* shocks: the loop of simulate restricted to _calculate_panic_intensity.  *)
(***************************************************************************)
IntensityMaxDuration == 22

IntensityInit ==
    /\ rng \in {0}
    /\ parameters = ValidateParameters(NoInstance)
    /\ pc = "idle"
    /\ t = 0
    /\ panic = NoPanic
    /\ panic_intensity = 0
    /\ results = NoResults
    /\ agent_states = NoAgents
    /\ outcome = "none"
    /\ summary = NoSummary
    /\ statusWrites = << >>
    /\ pre = NoAgents
    /\ readSlots = {}
    /\ reference = NoReference
    /\ runs = 0
    /\ model = "none"
    /\ heap = << >>
    /\ instances = << >>
    /\ engine = NoEngineCall
    /\ args \in [ fn : { "panic_intensity" },
                  periods : { IntensityMaxDuration + MaxStart + 2 },
                  shock : [ trigger_intensity : TriggerIntensities,
                            panic_duration : 0 .. IntensityMaxDuration,
                            start_period : 0 .. MaxStart ] ]
    /\ ret = NoRet
    /\ threads = OneThread

\* for t in range(periods):
\*     results['panic_intensity'][t] = self._calculate_panic_intensity(t, panic)
PanicIntensitySeries ==
    /\ args.fn = "panic_intensity"
    /\ ret = NoRet
    /\ LET calls == [ k \in 1 .. args.periods |->
                        CalculatePanicIntensity(k - 1, ParsePanic(args.shock)) ]
       IN  ret' = IF \E k \in 1 .. args.periods : calls[k].raised
                  THEN [ kind |-> "raised", panic_intensity |-> << >> ]
                  ELSE [ kind |-> "returned",
                         panic_intensity |->
                             [ k \in 1 .. args.periods |-> calls[k].value ] ]
    /\ UNCHANGED <<rng, parameters, pc, t, panic, panic_intensity, results,
                   agent_states, outcome, summary, statusWrites, pre,
                   readSlots, reference, runs, model, heap, instances,
                   engine, args, threads>>

SpecIntensity == IntensityInit /\ [][PanicIntensitySeries]_vars

(***************************************************************************)

(* Properties.                                                             *)
(***************************************************************************)
Crypto == model = "crypto"
Running == Crypto /\ pc \in { Phases[i] : i \in 1 .. Len(Phases) } \cup {"finalize"}
ExchangeIds == 1 .. Len(agent_states.liquidity_reserves)
PriceSeries == << results.btc_price, results.eth_price, results.doge_price >>
AfterExchangeUpdate == Crypto /\ pc = PhaseAfter("exchanges")

\* C1: every price of the three price series is > 0, and every exchange
\* reserve and every value of the exchange_liquidity series is in [0, 1].
C1_PricesPositiveLiquidityBounded ==
    Crypto =>
        /\ \A a \in 1 .. 3 : \A i \in 1 .. Len(PriceSeries[a]) :
               PriceSeries[a][i].m > 0
        /\ \A i \in ExchangeIds :
               agent_states.liquidity_reserves[i] \in 0 .. SCALE
        /\ \A i \in 1 .. Len(results.exchange_liquidity) :
               results.exchange_liquidity[i] \in 0 .. SCALE

\* a period whose BTC price sits on its floor while reserves are depleted
C1_Witness ==
    /\ Crypto /\ pc = "record" /\ t >= 1
    /\ Slot(results.btc_price, t)
           = FMul(Slot(results.btc_price, t - 1), FromFx(BtcFloor))
    /\ \E i \in ExchangeIds : agent_states.liquidity_reserves[i] < SCALE

\* C2: the freeze check assigns the status of an exchange at most once per
\* call, and an exchange it freezes is frozen when the call ends.
C2_OneStatusChangePerUpdate ==
    AfterExchangeUpdate =>
        \A i \in ExchangeIds :
            /\ Len(statusWrites[i]) <= 1
            /\ (pre.operational_status[i] > 0
                    /\ \E k \in 1 .. Len(statusWrites[i]) :
                           statusWrites[i][k] = 0)
                   => agent_states.operational_status[i] = 0

\* an exchange that was operational before the update and is frozen after
C2_Witness ==
    /\ AfterExchangeUpdate
    /\ \E i \in ExchangeIds :
           /\ pre.operational_status[i] > 0
           /\ agent_states.operational_status[i] = 0

\* C3: under pressure below 0.1 every exchange, operational or frozen,
\* recovers by exchange_recovery_rate (capped at 1.0); only an operational
\* exchange is depleted first.
C3_RecoveryInEitherState ==
    AfterExchangeUpdate =>
        \A i \in ExchangeIds :
            pre.withdrawal_pressure[i] < 1000 =>
                agent_states.liquidity_reserves[i] =
                    Min(SCALE,
                        (IF pre.operational_status[i] > 0
                         THEN Max(0, pre.liquidity_reserves[i]
                                  - FxMul(pre.withdrawal_pressure[i], 1000))
                         ELSE pre.liquidity_reserves[i])
                        + parameters.exchange_recovery_rate)

\* the case of claim C4: operational, reserve 0.35, freeze threshold 0.4
C4_Case(i) ==
    /\ AfterExchangeUpdate
    /\ parameters.exchange_freeze_threshold = 4000
    /\ pre.operational_status[i] = 1
    /\ pre.liquidity_reserves[i] = 3500

C5_NoPeriodRaises ==
    (Crypto /\ panic.trigger_intensity \in 0 .. SCALE) => outcome # "raised"

\* C6: a call that repeats the previous call (same parameters, same
\* configuration) returns the same series, whatever was drawn in between.
C6_SameSeedSameSeries ==
    (Crypto /\ pc = "idle" /\ outcome = "returned"
            /\ reference # NoReference)
        => results = reference

\* a repeated call of at least three periods has returned
C6_Witness ==
    /\ Crypto /\ pc = "idle" /\ outcome = "returned" /\ reference # NoReference
    /\ parameters.periods >= 3
    /\ panic.trigger_intensity > 3000 /\ panic.panic_duration >= 2

\* C7: with trigger_intensity = 0 the cohorts stay at rest, pressure is 0,
\* every exchange stays at reserve 1 and operational, and the retail, whale
\* and liquidity terms of the period's returns are 0.
C7_ZeroIntensityRest ==
    (Running /\ panic.trigger_intensity = 0) =>
        /\ agent_states.panic_state = 0
        /\ agent_states.coordination_level = 0
        /\ agent_states.manipulation_intent = 0
        /\ \A i \in ExchangeIds :
               /\ agent_states.withdrawal_pressure[i] = 0
               /\ agent_states.liquidity_reserves[i] = SCALE
               /\ agent_states.operational_status[i] = 1
        /\ \A i \in 1 .. Len(results.panic_intensity) :
               /\ results.panic_intensity[i] = 0
               /\ results.retail_sell_rate[i] = 0
               /\ results.whale_activity[i] = 0
        /\ (pc = "prices" /\ t >= 1) =>
               LET st == PriceStep(parameters, results, agent_states, t,
                                   panic_intensity, rng)
               IN  /\ st.retail_sell_pressure = 0
                   /\ st.whale_impact = 0
                   /\ st.liquidity_impact = 0

\* a zero-intensity run whose window and tail were both executed
C7_Witness ==
    /\ Crypto /\ pc = "finalize" /\ panic.trigger_intensity = 0
    /\ panic.panic_duration >= 2
    /\ parameters.periods > panic.start_period + panic.panic_duration

\* C10: the phases of an iteration run in the order intensity, agents,
\* prices, exchanges, record; the iterations run in the order 0 .. periods-1;
\* iteration t changes no slot other than t of a series; no phase reads a
\* slot beyond t.
C10_PhaseOrderStep ==
    /\ (Crypto /\ pc = "idle" /\ pc' # "idle") => (pc' = "intensity" /\ t' = 0)
    /\ pc = "intensity" =>
           (pc' = "agents" /\ t' = t) \/ (pc' = "idle" /\ outcome' = "raised")
    /\ pc = "agents" => (pc' = "prices" /\ t' = t)
    /\ pc = "prices" => (pc' = "exchanges" /\ t' = t)
    /\ pc = "exchanges" => (pc' = "record" /\ t' = t)
    /\ pc = "record" =>
           \/ (pc' = "intensity" /\ t' = t + 1 /\ t' < parameters.periods)
           \/ (pc' = "finalize" /\ t = parameters.periods - 1)
    /\ (pc \in { Phases[i] : i \in 1 .. Len(Phases) } /\ outcome' # "raised")
           =>
           /\ \A s \in DOMAIN results :
                  \A k \in 1 .. Len(results[s]) :
                      k # t + 1 => results'[s][k] = results[s][k]
           /\ \A k \in readSlots' : k <= t

C10_PhaseOrder == [][C10_PhaseOrderStep]_vars

\* the last iteration of a run of at least three periods has been recorded
C10_Witness ==
    /\ Crypto /\ pc = "finalize" /\ t = parameters.periods - 1 /\ t >= 2
    /\ Len(results.liquidation_volume) = parameters.periods

\* number of leading slots of panic_intensity the loop has recorded
Recorded ==
    IF pc \in {"finalize", "bank_finalize"} THEN parameters.periods
    ELSE IF pc = "intensity" \/ pc = "bank_period" THEN t
    ELSE IF Running THEN t + 1
    ELSE 0

\* C8: in both variants the recorded intensity is 0 before start_period and
\* never increases from one period to the next once the panic window is over.
C8_ZeroBeforeStartThenNonIncreasing ==
    \A k \in 0 .. (Recorded - 1) :
        /\ k < panic.start_period => Slot(results.panic_intensity, k) = 0
        /\ (k >= panic.start_period + panic.panic_duration
                /\ k + 1 < Recorded)
               => Slot(results.panic_intensity, k + 1)
                      <= Slot(results.panic_intensity, k)

\* a crypto run with a quiet first period and a strictly falling tail
C8_Witness ==
    /\ Crypto /\ pc = "finalize" /\ panic.start_period = 1
    /\ \E k \in 0 .. (parameters.periods - 2) :
           /\ k >= panic.start_period + panic.panic_duration
           /\ Slot(results.panic_intensity, k + 1)
                  < Slot(results.panic_intensity, k)

BankTail(k) == panic.start_period + panic.panic_duration + k
BankRun == model = "bank" /\ pc = "bank_finalize"

Returned == Crypto /\ pc = "idle" /\ outcome = "returned"

\* the highest price of the series up to and including period j - 1
RunningPeak(series, j) == FSeqMax(SubSeq(series, 1, j))

\* the largest (peak - trough) / peak over the running maximum, in percent
PeakToTroughPct(series) ==
    LET dd(j) == FDivFx(FSub(RunningPeak(series, j), series[j]),
                        RunningPeak(series, j)) * 100
    IN  CHOOSE x \in { dd(j) : j \in 1 .. Len(series) } :
            \A j \in 1 .. Len(series) : dd(j) <= x

\* C11: the max-drawdown fields of the crypto summary are the largest
\* (peak - trough) / peak over the running maximum of each price series.
C11_DrawdownOverRunningPeak ==
    Returned =>
        /\ summary.btc_max_drawdown_pct = PeakToTroughPct(results.btc_price)
        /\ summary.eth_max_drawdown_pct = PeakToTroughPct(results.eth_price)
        /\ summary.doge_max_drawdown_pct = PeakToTroughPct(results.doge_price)

BankReturned == model = "bank" /\ pc = "idle" /\ outcome = "returned"

IsMaxOf(x, s) ==
    (\E i \in 1 .. Len(s) : s[i] = x) /\ (\A i \in 1 .. Len(s) : s[i] <= x)
IsMinOf(x, s) ==
    (\E i \in 1 .. Len(s) : s[i] = x) /\ (\A i \in 1 .. Len(s) : x <= s[i])
FIsMaxOf(x, s) ==
    (\E i \in 1 .. Len(s) : s[i] = x) /\ (\A i \in 1 .. Len(s) : FLeq(s[i], x))
FIsMinOf(x, s) ==
    (\E i \in 1 .. Len(s) : s[i] = x) /\ (\A i \in 1 .. Len(s) : FLeq(x, s[i]))

\* C12: in every completed run each summary extreme is a value of its series
\* that bounds every value of the series (crypto: max_panic_intensity,
\* min_exchange_liquidity, max_frozen_exchanges; bank: max_daily_withdrawals,
\* min_liquidity_ratio, peak_gdp_impact as the lowest gdp_impact).
C12_SummaryExtremes ==
    /\ Returned =>
        /\ IsMaxOf(summary.max_panic_intensity, results.panic_intensity)
        /\ IsMinOf(summary.min_exchange_liquidity, results.exchange_liquidity)
        /\ IsMaxOf(summary.max_frozen_exchanges, results.exchanges_frozen)
    /\ BankReturned =>
        /\ FIsMaxOf(summary.max_daily_withdrawals, results.daily_withdrawals)
        /\ IsMinOf(summary.min_liquidity_ratio, results.liquidity_ratio)
        /\ FIsMinOf(summary.peak_gdp_impact, results.gdp_impact)

\* a crypto run has returned whose intensity peaked before the last period
\* and whose exchanges lost liquidity and froze
C12_Witness ==
    /\ Returned
    /\ parameters.periods >= 3
    /\ summary.max_panic_intensity > results.panic_intensity[parameters.periods]
    /\ summary.min_exchange_liquidity < results.exchange_liquidity[1]
    /\ summary.max_frozen_exchanges > results.exchanges_frozen[1]

Carries(message, part) == \E i \in 1 .. Len(message) : message[i] = part

\* a step in which a run_simulation call (direct or after a load) ends on a
\* scenario whose model name is not registered
C13_UnknownModelStep ==
    (/\ ret' # ret
     /\ ret'.scenario # NoScenario
     /\ ret'.scenario.model \notin engine.models)
        => /\ ret'.kind = "raised"
           /\ ret'.type = "ValueError"
           /\ Carries(ret'.message, ret'.scenario.model)
           /\ instances' = instances
           /\ runs' = runs
           /\ UNCHANGED <<parameters, model, pc, outcome, results, rng>>
           /\ engine' = engine

\* C13: run_simulation on a scenario whose model name is not in the registry
\* raises an error whose message carries the requested name; no model is
\* constructed, no simulate call is made, nothing is returned and the
\* registry is unchanged.
C13_UnknownModel == [][C13_UnknownModelStep]_vars

\* run_simulation has raised on the name unknown_model, given a dict of the
\* caller, and on a scenario without a model key
C13_Witness ==
    /\ ret.op = "run_simulation"
    /\ ret.kind = "raised"
    /\ ret.scenario.model \in { "unknown_model", "None" }
    /\ ret.scenario.parameters \in 1 .. Len(heap)

\* instance i was resolved as the claim says from the map it was given
Resolved(i) ==
    LET given == instances[i].given
        built == instances[i].built
        defaults == DefaultsOf(instances[i].class)
    IN  /\ DOMAIN built = (DOMAIN defaults) \cup (DOMAIN given)
        /\ \A k \in DOMAIN given : built[k] = given[k]
        /\ \A k \in (DOMAIN defaults) \ (DOMAIN given) : built[k] = defaults[k]

\* C14: the resolved parameters have the keys of the defaults and of the
\* overrides; every key of the overrides keeps the override's value, also a
\* key the defaults do not know and a value out of range, and every other
\* key has its default.
C14_OverridesThenDefaults ==
    \A i \in 1 .. Len(instances) : Resolved(i)

\* a crypto model and a bank model were built from maps with a key unknown
\* to the defaults and a freeze threshold of 0.9
C14_Witness ==
    /\ \E i \in 1 .. Len(instances) :
           /\ instances[i].class = "crypto"
           /\ "custom_label" \in DOMAIN instances[i].given
           /\ instances[i].built.custom_label = 1
           /\ instances[i].built.exchange_freeze_threshold = 9000
           /\ instances[i].built.random_seed = 42
    /\ \E i \in 1 .. Len(instances) :
           /\ instances[i].class = "bank"
           /\ instances[i].built.periods # BankDefaults.periods

\* C15: the parameters of every instance are, at any later time, the map
\* they were right after its construction.
C15_ParametersFrozen ==
    \A i \in 1 .. Len(instances) :
        heap[instances[i].params] = instances[i].built

\* the exceptions open and json.load raise by themselves
UnderlyingErrors == { "FileNotFoundError", "JSONDecodeError" }

\* a step in which run_scenario_file ends on a file that cannot be loaded
C19_LoadFailureStep ==
    (/\ ret' # ret
     /\ ret'.op = "run_scenario_file"
     /\ Files[ret'.path].state # "ok")
        => /\ ret'.kind = "raised"
           /\ ret'.type \notin UnderlyingErrors
           /\ Carries(ret'.message, ret'.path)
           /\ ret'.cause \in UnderlyingErrors
           /\ instances' = instances
           /\ runs' = runs

\* C19: on a missing or malformed scenario file run_scenario_file raises a
\* load-failure error of its own that carries the path and the underlying
\* cause; no model is constructed and no simulation is run.
C19_LoadFailure == [][C19_LoadFailureStep]_vars

BankFnCalled == args.fn = "simulate_bank_panic" /\ ret # NoRet

\* total_deposits * withdrawal_rate / 100 and the liquidity at hand
FnDaily == FMul(args.total_deposits, FromFx(args.withdrawal_rate \div 100))
FnLiquidity == FAdd(args.liquid_reserves, args.central_bank_support)

\* n is the whole number of days the liquidity covers
IsFloorOfRatio(n, total, daily) ==
    /\ FLeq(FMul(FromInt(n), daily), total)
    /\ FLess(total, FMul(FromInt(n + 1), daily))

\* C16: simulate_bank_panic returns daily_withdrawals = deposits * rate / 100
\* and remaining_liquidity = max(0, reserves + support - daily_withdrawals);
\* with positive withdrawals survival_days is the floor of liquidity over
\* withdrawals and bank_survives is survival_days >= 7; otherwise
\* survival_days is 999 and the bank survives.
C16_SimpleBankPanic ==
    BankFnCalled =>
        /\ ret.daily_withdrawals = FnDaily
        /\ ret.remaining_liquidity = FMax(FZero, FSub(FnLiquidity, FnDaily))
        /\ IF FLess(FZero, FnDaily)
           THEN /\ IsFloorOfRatio(ret.survival_days, FnLiquidity, FnDaily)
                /\ ret.bank_survives <=> (ret.survival_days >= 7)
           ELSE /\ ret.survival_days = 999
                /\ ret.bank_survives

\* the call 100e9, 15e9, 20.0, 10e9 has returned 20e9, 5e9 and no survival
C16_Witness ==
    /\ BankFnCalled
    /\ args.total_deposits = FNorm(1, 11)
    /\ args.liquid_reserves = FNorm(15, 9)
    /\ args.withdrawal_rate = 20 * SCALE
    /\ args.central_bank_support = FNorm(1, 10)
    /\ ret.daily_withdrawals = FNorm(2, 10)
    /\ ret.remaining_liquidity = FNorm(5, 9)
    /\ ret.survival_days = 1
    /\ ~ret.bank_survives

\* some exchange count goes frozen, none frozen, frozen in three
\* consecutive periods
Flapping ==
    \E i \in 1 .. (Len(results.exchanges_frozen) - 2) :
        /\ results.exchanges_frozen[i] > 0
        /\ results.exchanges_frozen[i + 1] = 0
        /\ results.exchanges_frozen[i + 2] > 0

\* C17: every CryptoPanicModel that is constructed has its freeze threshold
\* strictly below the recovery threshold 0.8, and no run shows an exchange
\* Frozen, Operational and Frozen again in consecutive periods.
C17_FreezeBelowRecovery ==
    Crypto =>
        /\ parameters.exchange_freeze_threshold < RecoveryThreshold
        /\ ~Flapping

ShockReturned == args.fn \in { "interest_rate", "inflation_shock" } /\ ret # NoRet

\* C20: in both models the shock series is magnitude * persistence^(t - start)
\* in the periods start <= t < start + duration and exactly 0 in every other
\* period, before the start and from start + duration on.
C20_ShockWindow ==
    ShockReturned =>
        /\ Len(ret.shock) = args.periods
        /\ \A p \in 0 .. (args.periods - 1) :
               Slot(ret.shock, p) =
                   IF /\ args.shock.start_period <= p
                      /\ p < args.shock.start_period + args.shock.duration
                   THEN FxMul(args.shock.magnitude,
                              FxPow(args.persistence,
                                    p - args.shock.start_period))
                   ELSE 0

\* a shock of 1.0 with persistence 0.8 over periods 1..3 of 5 has given
\* 0, 1.0, 0.8, 0.64, 0
C20_Witness ==
    /\ ShockReturned
    /\ args.periods = 5 /\ args.persistence = 8000
    /\ args.shock = [ magnitude |-> 10000, duration |-> 3, start_period |-> 1 ]
    /\ ret.shock = << 0, 10000, 8000, 6400, 0 >>

\* the running thread has returned from a call that repeats its previous one
Repeated == Returned /\ reference # NoReference
CutShort(call) == << threads.tid, call >> \in threads.interrupted

C21_AgentRangesStep ==
    (Crypto /\ pc = "agents" /\ pc' # "agents") =>
        /\ agent_states'.panic_state \in 0 .. SCALE
        /\ agent_states'.coordination_level \in 0 .. SCALE
        /\ Slot(results'.retail_sell_rate, t) \in 0 .. SCALE
        /\ Abs(agent_states'.manipulation_intent) <= SCALE
        /\ IF panic_intensity > 3000
           THEN Abs(agent_states'.manipulation_intent)
                    <= agent_states'.coordination_level
           ELSE Abs(agent_states'.manipulation_intent)
                    <= Abs(agent_states.manipulation_intent)

\* C21: whatever the trigger_intensity, a call of _update_agent_behaviors
\* leaves the retail panic_state and the whale coordination_level in [0, 1],
\* the retail_sell_rate of the period in [0, 1], and the whale
\* manipulation_intent in [-1, 1]: a redraw is bounded by the coordination
\* level it is scaled with, and a decay never increases its magnitude.
C21_AgentRanges == [][C21_AgentRangesStep]_vars

\* a period of intensity above 1 that drove the retail panic to its cap and
\* redrew a non-zero whale intent
C21_Witness ==
    /\ Crypto /\ pc = PhaseAfter("agents")
    /\ panic_intensity > SCALE
    /\ agent_states.panic_state = SCALE
    /\ agent_states.manipulation_intent # 0
    /\ agent_states.coordination_level < SCALE

\* the condition on one call of _update_asset_prices
C22_PriceFloorStep ==
    (Crypto /\ pc = "prices" /\ pc' # "prices") =>
        IF t = 0
        THEN /\ rng' = rng
             /\ Slot(results'.btc_price, 0) = parameters.btc_initial_price
             /\ Slot(results'.eth_price, 0) = parameters.eth_initial_price
             /\ Slot(results'.doge_price, 0) = parameters.doge_initial_price
        ELSE /\ FLeq(FMul(Slot(results.btc_price, t - 1), FromFx(100)),
                     Slot(results'.btc_price, t))
             /\ FLeq(FMul(Slot(results.eth_price, t - 1), FromFx(100)),
                     Slot(results'.eth_price, t))
             /\ FLeq(FMul(Slot(results.doge_price, t - 1), FromFx(10)),
                     Slot(results'.doge_price, t))
             /\ Slot(results'.btc_price, 0) = parameters.btc_initial_price
             /\ Slot(results'.eth_price, 0) = parameters.eth_initial_price
             /\ Slot(results'.doge_price, 0) = parameters.doge_initial_price

\* C22: a call of _update_asset_prices in a period t >= 1 writes, whatever
\* the returns drawn, a price that is at least 0.01 (BTC, ETH) or 0.001
\* (DOGE) of the price of period t - 1; in period 0 it draws nothing and
\* leaves the configured initial prices in slot 0.
C22_PriceFloor == [][C22_PriceFloorStep]_vars

\* a period in which DOGE lost 99.9% and sits on its floor, below 1% of its
\* previous price, while BTC stayed above its own floor
C22_Witness ==
    /\ Crypto /\ pc = PhaseAfter("prices") /\ t >= 1
    /\ Slot(results.doge_price, t)
           = FMul(Slot(results.doge_price, t - 1), FromFx(10))
    /\ FLess(FMul(Slot(results.btc_price, t - 1), FromFx(100)),
             Slot(results.btc_price, t))

\* C23: with the 'no panic' configuration (panic_duration 0 and
\* withdrawal_rate 0.0) the run returned by BankPanicModel.simulate has
\* panic_intensity 0 in every period and a withdrawal_rate series equal to
\* base_withdrawal_rate in every period.
C23_NoPanicAtRest ==
    (BankReturned /\ panic.panic_duration = 0 /\ panic.withdrawal_rate = 0) =>
        \A i \in 1 .. parameters.periods :
            /\ results.panic_intensity[i] = 0
            /\ results.withdrawal_rate[i] = parameters.base_withdrawal_rate

\* periods of the returned bank run whose liquidity ratio is below the
\* intervention threshold
Breaches ==
    { k \in 0 .. (parameters.periods - 1) :
        Slot(results.liquidity_ratio, k)
            < parameters.cb_intervention_threshold * 100 }

\* C24: in the run returned by BankPanicModel.simulate a positive
\* central_bank_support is recorded in period k only if k is at least
\* cb_response_delay periods after the first period whose liquidity ratio
\* was below cb_intervention_threshold, and the support of period k - 1
\* enters the reserves of period k.
C24_SupportAfterDelay ==
    BankReturned =>
        /\ \A k \in 0 .. (parameters.periods - 1) :
               Slot(results.central_bank_support, k).m > 0 =>
                   \E first \in Breaches :
                       /\ \A b \in Breaches : first <= b
                       /\ k >= first + parameters.cb_response_delay
        /\ \A k \in 1 .. (parameters.periods - 1) :
               Slot(results.liquid_reserves, k)
                   = FMax(FZero,
                          FSub(FAdd(Slot(results.liquid_reserves, k - 1),
                                    Slot(results.central_bank_support, k - 1)),
                               Slot(results.daily_withdrawals, k)))

\* C25: throughout CryptoPanicModel.simulate all exchanges have the same
\* liquidity reserve and the same operational status, and every value of
\* the exchanges_frozen series is 0 or num_exchanges.
C25_ExchangesMoveTogether ==
    Crypto =>
        /\ \A i \in ExchangeIds : \A j \in ExchangeIds :
               /\ agent_states.liquidity_reserves[i]
                      = agent_states.liquidity_reserves[j]
               /\ agent_states.operational_status[i]
                      = agent_states.operational_status[j]
        /\ \A k \in 1 .. Len(results.exchanges_frozen) :
               results.exchanges_frozen[k] \in {0, parameters.num_exchanges}

\* a period that ended with every exchange frozen on a depleted reserve
C25_Witness ==
    /\ AfterExchangeUpdate /\ t >= 1
    /\ Slot(results.exchanges_frozen, t) = parameters.num_exchanges
    /\ parameters.num_exchanges >= 2
    /\ \A i \in ExchangeIds :
           /\ agent_states.operational_status[i] = 0
           /\ agent_states.liquidity_reserves[i] < SCALE

\* two shocks that agree on intensity, duration and start
SameButTrigger(a, b) ==
    /\ a.trigger_intensity = b.trigger_intensity
    /\ a.panic_duration = b.panic_duration
    /\ a.start_period = b.start_period

C27_SinglePeaked ==
    (/\ args.fn = "panic_intensity"
     /\ ret # NoRet
     /\ args.shock.panic_duration >= 2
     /\ args.shock.trigger_intensity >= 0) =>
        LET peak == args.shock.start_period + args.shock.panic_duration \div 2
            v(k) == Slot(ret.panic_intensity, k)
        IN  /\ ret.kind = "returned"
            /\ \A k \in 0 .. (peak - 1) : v(k) <= v(k + 1)
            /\ v(peak) = args.shock.trigger_intensity
            /\ \A k \in peak .. (args.periods - 2) : v(k + 1) <= v(k)

\* periods of a returned run whose BTC price is at least 95% of the price of
\* period 0
Recovered ==
    { i \in 0 .. (parameters.periods - 1) :
        FLeq(FMul(Slot(results.btc_price, 0), FromFx(9500)),
             Slot(results.btc_price, i)) }

\* C28: summary.recovery_period is the smallest period index i with
\* btc_price[i] >= 0.95 * btc_price[0], and is periods only when no period
\* satisfies that condition.
C28_RecoveryPeriodIsFirst ==
    Returned =>
        /\ Recovered # {} =>
               /\ summary.recovery_period \in Recovered
               /\ \A i \in Recovered : summary.recovery_period <= i
        /\ Recovered = {} => summary.recovery_period = parameters.periods

\* the condition on one period of the bank loop, and the summary step
C29_FailuresStep ==
    /\ (model = "bank" /\ pc = "bank_period") =>
           LET before == agent_states.bank_survival_status
               after == agent_states'.bank_survival_status
           IN  /\ \A i \in 1 .. Len(before) : before[i] = 0 => after[i] = 0
               /\ SumSeq(before) - SumSeq(after) \in 0 .. SumSeq(before)
               /\ Slot(results'.banks_failed, t) \in 0 .. parameters.num_banks
               /\ Slot(results'.banks_failed, t)
                      = parameters.num_banks - SumSeq(after)
               /\ t >= 1 => Slot(results.banks_failed, t - 1)
                                <= Slot(results'.banks_failed, t)
    /\ (model = "bank" /\ pc = "bank_finalize") =>
           /\ summary'.final_banks_surviving
                  = parameters.num_banks
                        - Slot(results.banks_failed, parameters.periods - 1)
           /\ summary'.final_banks_surviving
                  = parameters.num_banks - summary'.max_banks_failed

\* C29: in a period of BankPanicModel.simulate no failed bank becomes alive
\* again, the banks failing in the period are at most those alive before
\* it, and banks_failed[t] is within [0, num_banks] and not below
\* banks_failed[t - 1]; the summary has final_banks_surviving
\* = num_banks - banks_failed[periods - 1] = num_banks - max_banks_failed.
C29_FailuresOnlyGrow == [][C29_FailuresStep]_vars

\* a run in which one bank failed first and the others in a later period
C29_Witness ==
    /\ BankReturned
    /\ parameters.periods >= 2
    /\ Slot(results.banks_failed, 0) \in 1 .. (parameters.num_banks - 1)
    /\ Slot(results.banks_failed, parameters.periods - 1)
           = parameters.num_banks
    /\ summary.final_banks_surviving = 0

\* C30: constructing a model on a caller's parameters map, and
\* run_simulation on a scenario, leave the caller's data as it was: the map
\* an instance was built on still has the value it was given with, and the
\* scenario echoed by run_simulation has the parameters it was passed with.
C30_CallerDataUnchanged ==
    /\ \A i \in 1 .. Len(instances) :
           heap[instances[i].params] = instances[i].given
    /\ (ret.kind = "returned" /\ ret.op # "none") =>
           \E i \in 1 .. Len(instances) :
               /\ instances[i].params = ret.scenario.parameters
               /\ heap[ret.scenario.parameters] = instances[i].given
====
